---- MODULE Spec2Model ----
(***************************************************************************)
(* Multi-level priority queue of fsedano/pq_redis_mem: the slice-backed    *)
(* engine (MultiPriorityQueue) and the Redis-backed engine                 *)
(* (RedisPriorityQueue), both behind the PriorityQueuer interface, driven  *)
(* with the same calls as TestPriorityQueue and testQueue drive them.      *)
(***************************************************************************)
EXTENDS Integers, Sequences, FiniteSets, TLC

VARIABLES
    impl,   \* the engine under test: "SlicePQ", "RedisPQ", or "Both" side by side
    mpq,    \* MultiPriorityQueue.queues: registered name -> 10 levels of Item
    rdb,    \* the Redis database: key -> sorted set of redis.Z
    last,   \* the call made last and what each engine returned from it
    hist,   \* per engine and queue name: the add calls whose item is still held
    passed, \* side by side: the values passed to Enqueue and InsertAtTop so far
    th,     \* per goroutine: the call it is in, where it is in it, its locals
    mu      \* per sync.Mutex: the goroutine that holds it, or "free"

vars == <<impl, mpq, rdb, last, hist, passed, th, mu>>

\* ------------------------------------------------------------------ bounds

\* Items held by one engine, over all its queues.
MaxItems == 2

\* ------------------------------------------------------- program constants

\* make([][]Item, 10): the levels 0..9 of one PriorityQueue.
NumLevels == 10

\* 0.000001 == 1 / MicroPerUnit: scores are kept in millionths, so that the
\* score float64(priority) - 0.000001 is the integer priority*MicroPerUnit - 1.
MicroPerUnit == 1000000

\* ------------------------------------------------------------------ inputs

QueueNames == {"tasks", "test"}

\* The key that the callers of one store share.
SharedKeys == {"tasks"}

\* Values are interface{}: a Go string or a Go int.
StringValue(s) == [t |-> "string", s |-> s]
IntValue(n) == [t |-> "int", n |-> n]
Nil == [t |-> "nil"]

\* Two strings, and an int whose string form is that of one of them.
Values == {StringValue("a"), StringValue("1"), IntValue(1)}

\* Priorities the callers pass: the first and the last level, and the two
\* values just outside the range.
Priorities == {-1, 0, 9, 10}

\* What Enqueue and InsertAtTop are called with: every value at every level,
\* and one value at the priorities outside the range.
AddInputs ==
    {<<v, p>> \in Values \X Priorities : p \in 0 .. 9 \/ v = StringValue("a")}

\* ---------------------------------------------------------------- strings

\* strconv of a one-digit int, as %v prints it.
Digits == <<"0", "1", "2", "3", "4", "5", "6", "7", "8", "9">>

\* fmt.Sprintf("%v", value)
Sprintf(value) ==
    IF value.t = "string" THEN value.s
    ELSE IF value.t = "int" THEN Digits[value.n + 1]
    ELSE "<nil>"

\* The byte of a one-byte member string (Redis orders members of equal score
\* by memcmp).
Byte(s) ==
    CASE s = "0" -> 48 [] s = "1" -> 49 [] s = "2" -> 50 [] s = "3" -> 51
      [] s = "4" -> 52 [] s = "5" -> 53 [] s = "6" -> 54 [] s = "7" -> 55
      [] s = "8" -> 56 [] s = "9" -> 57
      [] s = "a" -> 97 [] s = "b" -> 98 [] s = "c" -> 99

\* ------------------------------------------------------------------ errors

\* The fmt.Errorf messages, without the names they quote.
ErrPriority == "priority must be between 0 and 9"
ErrExists == "queue already exists"
ErrNoQueue == "queue does not exist"
ErrEmpty == "queue is empty"
ErrNotFound == "value not found in queue"
ErrRedis == "redis error"
NoErr == "nil"

\* What a call returns: the error and, for the method that has them, the
\* value (Dequeue), the bool (IsEmpty), the map (ListContents) and the two
\* ints (GetPosition). Fields a method does not return stay at these zeros.
Ret(err) ==
    [err |-> err, val |-> Nil, empty |-> FALSE, contents |-> <<>>,
     priority |-> 0, pos |-> 0]

\* ------------------------------------------------- slice-backed engine

Item(value, priority) == [Value |-> value, Priority |-> priority]

\* NewPriorityQueue: 10 empty levels.
NewPriorityQueue == [i \in 0 .. NumLevels - 1 |-> <<>>]

\* NewMultiPriorityQueue: make(map[string]*PriorityQueue)
NewMultiPriorityQueue == [n \in {} |-> NewPriorityQueue]

\* priority < 0 || priority > 9
BadPriority(priority) == priority < 0 \/ priority > 9

\* AddQueue without the exists check: the name gets a new queue every time.
MultiPriorityQueue_AddQueue_Replaces(m, name) ==
    [mpq |-> [n \in DOMAIN m \cup {name} |->
                 IF n = name THEN NewPriorityQueue ELSE m[n]],
     ret |-> Ret(NoErr)]

MultiPriorityQueue_AddQueue(m, name) ==
    IF name \in DOMAIN m
    THEN [mpq |-> m, ret |-> Ret(ErrExists)]
    ELSE [mpq |-> [n \in DOMAIN m \cup {name} |->
                      IF n = name THEN NewPriorityQueue ELSE m[n]],
          ret |-> Ret(NoErr)]

\* Enqueue that clamps the priority into 0..9 instead of refusing it.
MultiPriorityQueue_Enqueue_Clamps(m, queueName, value, priority) ==
    LET clamped == IF priority < 0 THEN 0 ELSE IF priority > 9 THEN 9 ELSE priority
    IN IF queueName \notin DOMAIN m THEN [mpq |-> m, ret |-> Ret(ErrNoQueue)]
       ELSE [mpq |-> [m EXCEPT ![queueName][clamped] =
                          Append(@, Item(value, clamped))],
             ret |-> Ret(NoErr)]

MultiPriorityQueue_Enqueue(m, queueName, value, priority) ==
    IF BadPriority(priority) THEN [mpq |-> m, ret |-> Ret(ErrPriority)]
    ELSE IF queueName \notin DOMAIN m THEN [mpq |-> m, ret |-> Ret(ErrNoQueue)]
    ELSE [mpq |-> [m EXCEPT ![queueName][priority] =
                       Append(@, Item(value, priority))],
          ret |-> Ret(NoErr)]

\* for i := 0; i < 10; i++ { if len(pq.queues[i]) > 0 { ... } }: the first
\* level from i on that holds an item, NumLevels when there is none.
RECURSIVE FirstNonEmpty(_, _)
FirstNonEmpty(queues, i) ==
    IF i >= NumLevels THEN NumLevels
    ELSE IF Len(queues[i]) > 0 THEN i
    ELSE FirstNonEmpty(queues, i + 1)

\* Dequeue with the scan started after level 0: for i := 1; ...
MultiPriorityQueue_Dequeue_SkipFirstLevel(m, queueName) ==
    IF queueName \notin DOMAIN m THEN [mpq |-> m, ret |-> Ret(ErrNoQueue)]
    ELSE LET i == FirstNonEmpty(m[queueName], 1) IN
         IF i < NumLevels
         THEN [mpq |-> [m EXCEPT ![queueName][i] = Tail(@)],
               ret |-> [Ret(NoErr) EXCEPT !.val = m[queueName][i][1].Value]]
         ELSE [mpq |-> m, ret |-> Ret(ErrEmpty)]

MultiPriorityQueue_Dequeue(m, queueName) ==
    IF queueName \notin DOMAIN m THEN [mpq |-> m, ret |-> Ret(ErrNoQueue)]
    ELSE LET i == FirstNonEmpty(m[queueName], 0) IN
         IF i < NumLevels
         THEN [mpq |-> [m EXCEPT ![queueName][i] = Tail(@)],
               ret |-> [Ret(NoErr) EXCEPT !.val = m[queueName][i][1].Value]]
         ELSE [mpq |-> m, ret |-> Ret(ErrEmpty)]

\* IsEmpty that takes a name it does not know for an empty queue.
MultiPriorityQueue_IsEmpty_MissingIsEmpty(m, queueName) ==
    IF queueName \notin DOMAIN m
    THEN [mpq |-> m, ret |-> [Ret(NoErr) EXCEPT !.empty = TRUE]]
    ELSE [mpq |-> m,
          ret |-> [Ret(NoErr) EXCEPT
                      !.empty = ~(FirstNonEmpty(m[queueName], 0) < NumLevels)]]

\* IsEmpty whose loop looks at level 0 only.
MultiPriorityQueue_IsEmpty_FirstLevelOnly(m, queueName) ==
    IF queueName \notin DOMAIN m THEN [mpq |-> m, ret |-> Ret(ErrNoQueue)]
    ELSE [mpq |-> m,
          ret |-> [Ret(NoErr) EXCEPT !.empty = (Len(m[queueName][0]) = 0)]]

MultiPriorityQueue_IsEmpty(m, queueName) ==
    IF queueName \notin DOMAIN m THEN [mpq |-> m, ret |-> Ret(ErrNoQueue)]
    ELSE [mpq |-> m,
          ret |-> [Ret(NoErr) EXCEPT
                      !.empty = ~(FirstNonEmpty(m[queueName], 0) < NumLevels)]]

\* The copy loop of ListContents filling values from the back.
LevelValues_Reversed(level) ==
    [i \in 1 .. Len(level) |-> level[Len(level) + 1 - i].Value]

\* values[i] = item.Value
LevelValues(level) == [i \in 1 .. Len(level) |-> level[i].Value]

\* ListContents without the len > 0 test: every level gets a key.
MultiPriorityQueue_ListContents_AllLevels(m, queueName) ==
    IF queueName \notin DOMAIN m THEN [mpq |-> m, ret |-> Ret(ErrNoQueue)]
    ELSE [mpq |-> m,
          ret |-> [Ret(NoErr) EXCEPT
                      !.contents = [priority \in 0 .. NumLevels - 1 |->
                                       LevelValues(m[queueName][priority])]]]

MultiPriorityQueue_ListContents(m, queueName) ==
    IF queueName \notin DOMAIN m THEN [mpq |-> m, ret |-> Ret(ErrNoQueue)]
    ELSE LET pq == m[queueName]
             keys == {priority \in 0 .. NumLevels - 1 : Len(pq[priority]) > 0}
         IN [mpq |-> m,
             ret |-> [Ret(NoErr) EXCEPT
                         !.contents = [priority \in keys |->
                                          LevelValues(pq[priority])]]]

\* The nested loops of GetPosition from (priority, pos) on; <<-1, -1>> when
\* no item's string form is that of value.
RECURSIVE PositionScan(_, _, _, _)
PositionScan(queues, value, priority, pos) ==
    IF priority >= NumLevels THEN <<-1, -1>>
    ELSE IF pos > Len(queues[priority])
         THEN PositionScan(queues, value, priority + 1, 1)
    ELSE IF Sprintf(queues[priority][pos].Value) = Sprintf(value)
         THEN <<priority, pos - 1>>
    ELSE PositionScan(queues, value, priority, pos + 1)

\* GetPosition returning the zero values with the no-queue error.
MultiPriorityQueue_GetPosition_ZeroOnMissing(m, queueName, value) ==
    IF queueName \notin DOMAIN m
    THEN [mpq |-> m, ret |-> Ret(ErrNoQueue)]
    ELSE LET found == PositionScan(m[queueName], value, 0, 1) IN
         [mpq |-> m,
          ret |-> [Ret(IF found[1] >= 0 THEN NoErr ELSE ErrNotFound) EXCEPT
                      !.priority = found[1], !.pos = found[2]]]

MultiPriorityQueue_GetPosition(m, queueName, value) ==
    IF queueName \notin DOMAIN m
    THEN [mpq |-> m,
          ret |-> [Ret(ErrNoQueue) EXCEPT !.priority = -1, !.pos = -1]]
    ELSE LET found == PositionScan(m[queueName], value, 0, 1) IN
         [mpq |-> m,
          ret |-> [Ret(IF found[1] >= 0 THEN NoErr ELSE ErrNotFound) EXCEPT
                      !.priority = found[1], !.pos = found[2]]]

\* InsertAtTop with the operands of append swapped: the item goes last.
MultiPriorityQueue_InsertAtTop_Appends(m, queueName, value, priority) ==
    IF BadPriority(priority) THEN [mpq |-> m, ret |-> Ret(ErrPriority)]
    ELSE IF queueName \notin DOMAIN m THEN [mpq |-> m, ret |-> Ret(ErrNoQueue)]
    ELSE [mpq |-> [m EXCEPT ![queueName][priority] =
                       @ \o <<Item(value, priority)>>],
          ret |-> Ret(NoErr)]

MultiPriorityQueue_InsertAtTop(m, queueName, value, priority) ==
    IF BadPriority(priority) THEN [mpq |-> m, ret |-> Ret(ErrPriority)]
    ELSE IF queueName \notin DOMAIN m THEN [mpq |-> m, ret |-> Ret(ErrNoQueue)]
    ELSE [mpq |-> [m EXCEPT ![queueName][priority] =
                       <<Item(value, priority)>> \o @],
          ret |-> Ret(NoErr)]

\* s without its element at index i (1-based).
RemoveAt(s, i) == SubSeq(s, 1, i - 1) \o SubSeq(s, i + 1, Len(s))

\* DeleteItem taking out every item with the value's string form.
MultiPriorityQueue_DeleteItem_AllMatches(m, queueName, value) ==
    IF queueName \notin DOMAIN m THEN [mpq |-> m, ret |-> Ret(ErrNoQueue)]
    ELSE LET Other(item) == Sprintf(item.Value) # Sprintf(value)
             found == PositionScan(m[queueName], value, 0, 1)
         IN IF found[1] < 0 THEN [mpq |-> m, ret |-> Ret(ErrNotFound)]
            ELSE [mpq |-> [m EXCEPT ![queueName] =
                              [priority \in 0 .. NumLevels - 1 |->
                                  SelectSeq(@[priority], Other)]],
                  ret |-> Ret(NoErr)]

\* DeleteItem of the slice-backed engine, which pq.DeleteItem of the tests
\* calls: the name is looked up as in every method, the levels are scanned
\* as GetPosition scans them, and the first item found is taken out.
MultiPriorityQueue_DeleteItem(m, queueName, value) ==
    IF queueName \notin DOMAIN m THEN [mpq |-> m, ret |-> Ret(ErrNoQueue)]
    ELSE LET found == PositionScan(m[queueName], value, 0, 1) IN
         IF found[1] < 0 THEN [mpq |-> m, ret |-> Ret(ErrNotFound)]
         ELSE [mpq |-> [m EXCEPT ![queueName][found[1]] =
                           RemoveAt(@, found[2] + 1)],
               ret |-> Ret(NoErr)]

\* ------------------------------------------------------- the Redis store

\* redis.Z{Score, Member}; Score in millionths.
Z(score, member) == [Score |-> score, Member |-> member]

\* An empty database: every key is absent, that is an empty sorted set.
EmptyDB == [key \in QueueNames |-> {}]

\* The order of a sorted set: by score, members of equal score by their bytes.
ZLess(x, y) ==
    \/ x.Score < y.Score
    \/ x.Score = y.Score /\ Byte(x.Member) < Byte(y.Member)

\* ZADD key score member: adds the member, or moves the member it holds.
ZAdd(db, key, z) ==
    [db EXCEPT ![key] = {x \in @ : x.Member # z.Member} \cup {z}]

\* ZREM key member: the database and the number of members removed.
ZRem(db, key, member) ==
    [db |-> [db EXCEPT ![key] = {x \in @ : x.Member # member}],
     count |-> Cardinality({x \in db[key] : x.Member = member})]

\* ZRANGE key 0 -1 WITHSCORES: every member, in the set's order.
RECURSIVE SortZ(_)
SortZ(set) ==
    IF set = {} THEN <<>>
    ELSE LET min == CHOOSE x \in set : \A y \in set \ {x} : ZLess(x, y)
         IN <<min>> \o SortZ(set \ {min})

ZRangeWithScores(db, key) == SortZ(db[key])

\* ZPOPMAX key 1 in the place of ZPOPMIN: the last member of the order.
ZPopMin_Max(db, key) ==
    LET members == ZRangeWithScores(db, key) IN
    IF Len(members) = 0 THEN [db |-> db, result |-> <<>>]
    ELSE [db |-> [db EXCEPT ![key] = @ \ {members[Len(members)]}],
          result |-> <<members[Len(members)]>>]

\* ZPOPMIN key 1: removes the first member of the set's order and returns it;
\* returns nothing from an empty set.
ZPopMin(db, key) ==
    LET members == ZRangeWithScores(db, key) IN
    IF Len(members) = 0 THEN [db |-> db, result |-> <<>>]
    ELSE [db |-> [db EXCEPT ![key] = @ \ {members[1]}],
          result |-> <<members[1]>>]

\* ZCARD key
ZCard(db, key) == Cardinality(db[key])

\* DEL key...
Del(db, queues) == [key \in DOMAIN db |-> IF key \in queues THEN {} ELSE db[key]]

\* ------------------------------------------------- Redis-backed engine
\* net[i] says whether the i-th store command of the call fails (the client
\* returns an error and the store is left as it was).

\* No store command fails.
Reliable == <<FALSE, FALSE>>

\* Any store command may fail.
Unreliable == {<<f1, f2>> : f1 \in BOOLEAN, f2 \in BOOLEAN}

\* The same for a method that issues one command.
OneCommand == {<<f1, FALSE>> : f1 \in BOOLEAN}

\* float64(priority)
Float64(priority) == priority * MicroPerUnit

\* int(x) of a float64 in millionths: truncation towards zero.
ToInt(x) == IF x >= 0 THEN x \div MicroPerUnit ELSE -((-x) \div MicroPerUnit)

\* int(member.Score + 0.5)
RoundScore(score) == ToInt(score + MicroPerUnit \div 2)

RedisPriorityQueue_ClearQueues(db, queues, net) ==
    IF queues = {} THEN [rdb |-> db, ret |-> Ret(NoErr)]
    ELSE IF net[1] THEN [rdb |-> db, ret |-> Ret(ErrRedis)]
    ELSE [rdb |-> Del(db, queues), ret |-> Ret(NoErr)]

\* AddQueue that starts the queue afresh: DEL name.
RedisPriorityQueue_AddQueue_Clears(db, name) ==
    [rdb |-> Del(db, {name}), ret |-> Ret(NoErr)]

RedisPriorityQueue_AddQueue(db, name) == [rdb |-> db, ret |-> Ret(NoErr)]

\* Enqueue by ZAddNX, which leaves a member the set holds as it is.
RedisPriorityQueue_Enqueue_NX(db, queueName, value, priority, net) ==
    IF BadPriority(priority) THEN [rdb |-> db, ret |-> Ret(ErrPriority)]
    ELSE IF net[1] THEN [rdb |-> db, ret |-> Ret(ErrRedis)]
    ELSE IF Sprintf(value) \in {x.Member : x \in db[queueName]}
    THEN [rdb |-> db, ret |-> Ret(NoErr)]
    ELSE [rdb |-> ZAdd(db, queueName, Z(Float64(priority), Sprintf(value))),
          ret |-> Ret(NoErr)]

RedisPriorityQueue_Enqueue(db, queueName, value, priority, net) ==
    IF BadPriority(priority) THEN [rdb |-> db, ret |-> Ret(ErrPriority)]
    ELSE IF net[1] THEN [rdb |-> db, ret |-> Ret(ErrRedis)]
    ELSE [rdb |-> ZAdd(db, queueName, Z(Float64(priority), Sprintf(value))),
          ret |-> Ret(NoErr)]

\* Dequeue without the len(result) == 0 test.
RedisPriorityQueue_Dequeue_NoEmptyTest(db, queueName, net) ==
    IF net[1] THEN [rdb |-> db, ret |-> Ret(ErrRedis)]
    ELSE LET pop == ZPopMin(db, queueName) IN
         [rdb |-> pop.db,
          ret |-> [Ret(NoErr) EXCEPT
                      !.val = IF Len(pop.result) = 0 THEN Nil
                              ELSE StringValue(pop.result[1].Member)]]

RedisPriorityQueue_Dequeue(db, queueName, net) ==
    IF net[1] THEN [rdb |-> db, ret |-> Ret(ErrRedis)]
    ELSE LET pop == ZPopMin(db, queueName) IN
         IF Len(pop.result) = 0 THEN [rdb |-> pop.db, ret |-> Ret(ErrEmpty)]
         ELSE [rdb |-> pop.db,
               ret |-> [Ret(NoErr) EXCEPT
                           !.val = StringValue(pop.result[1].Member)]]

RedisPriorityQueue_IsEmpty(db, queueName, net) ==
    IF net[1] THEN [rdb |-> db, ret |-> Ret(ErrRedis)]
    ELSE [rdb |-> db,
          ret |-> [Ret(NoErr) EXCEPT !.empty = (ZCard(db, queueName) = 0)]]

\* The loop of ListContents over members[i..]: contents[priority] =
\* append(contents[priority], member.Member) when priority is one of 0..9.
RECURSIVE GroupMembers(_, _, _)
GroupMembers(members, i, contents) ==
    IF i > Len(members) THEN contents
    ELSE LET priority == RoundScore(members[i].Score)
             value == StringValue(members[i].Member)
         IN IF priority >= 0 /\ priority <= 9
            THEN GroupMembers(members, i + 1,
                     [p \in DOMAIN contents \cup {priority} |->
                         IF p = priority
                         THEN (IF p \in DOMAIN contents
                               THEN Append(contents[p], value)
                               ELSE <<value>>)
                         ELSE contents[p]])
            ELSE GroupMembers(members, i + 1, contents)

RedisPriorityQueue_ListContents(db, queueName, net) ==
    IF net[1] THEN [rdb |-> db, ret |-> Ret(ErrRedis)]
    ELSE [rdb |-> db,
          ret |-> [Ret(NoErr) EXCEPT
                      !.contents = GroupMembers(ZRangeWithScores(db, queueName),
                                                1, <<>>)]]

\* The count of GetPosition without the priority test: every earlier member.
CountBefore_All(members, i, priority) == i - 1

\* for j := 0; j < i; j++ { if int(members[j].Score+0.5) == priority { pos++ } }
CountBefore(members, i, priority) ==
    Cardinality({j \in 1 .. i - 1 : RoundScore(members[j].Score) = priority})

\* The loop of GetPosition over members[i..]; <<-1, -1>> when no member is
\* valueStr.
RECURSIVE MemberScan(_, _, _)
MemberScan(members, valueStr, i) ==
    IF i > Len(members) THEN <<-1, -1>>
    ELSE IF members[i].Member = valueStr
         THEN LET priority == RoundScore(members[i].Score)
              IN <<priority, CountBefore(members, i, priority)>>
    ELSE MemberScan(members, valueStr, i + 1)

\* Whether the loop of GetPosition finds valueStr among the members.
MemberFound(members, valueStr) ==
    \E i \in 1 .. Len(members) : members[i].Member = valueStr

RedisPriorityQueue_GetPosition(db, queueName, value, net) ==
    IF net[1]
    THEN [rdb |-> db, ret |-> [Ret(ErrRedis) EXCEPT !.priority = -1, !.pos = -1]]
    ELSE LET members == ZRangeWithScores(db, queueName)
             found == MemberScan(members, Sprintf(value), 1)
         IN [rdb |-> db,
             ret |-> [Ret(IF MemberFound(members, Sprintf(value))
                          THEN NoErr ELSE ErrNotFound) EXCEPT
                         !.priority = found[1], !.pos = found[2]]]

\* priorityqueue/redispriorityqueue.go, the engine before it rounded: the
\* same store commands, the score converted by int(member.Score).

\* int(member.Score)
TruncScore(score) == ToInt(score)

\* The loop of that ListContents over members[i..]: no rounding, no range test.
RECURSIVE Draft_GroupMembers(_, _, _)
Draft_GroupMembers(members, i, contents) ==
    IF i > Len(members) THEN contents
    ELSE LET priority == TruncScore(members[i].Score)
             value == StringValue(members[i].Member)
         IN Draft_GroupMembers(members, i + 1,
                [p \in DOMAIN contents \cup {priority} |->
                    IF p = priority
                    THEN (IF p \in DOMAIN contents
                          THEN Append(contents[p], value)
                          ELSE <<value>>)
                    ELSE contents[p]])

Draft_ListContents(db, queueName, net) ==
    IF net[1] THEN [rdb |-> db, ret |-> Ret(ErrRedis)]
    ELSE [rdb |-> db,
          ret |-> [Ret(NoErr) EXCEPT
                      !.contents = Draft_GroupMembers(ZRangeWithScores(db, queueName),
                                                      1, <<>>)]]

\* for j := 0; j < i; j++ { if int(members[j].Score) == priority { pos++ } }
Draft_CountBefore(members, i, priority) ==
    Cardinality({j \in 1 .. i - 1 : TruncScore(members[j].Score) = priority})

RECURSIVE Draft_MemberScan(_, _, _)
Draft_MemberScan(members, valueStr, i) ==
    IF i > Len(members) THEN <<-1, -1>>
    ELSE IF members[i].Member = valueStr
         THEN LET priority == TruncScore(members[i].Score)
              IN <<priority, Draft_CountBefore(members, i, priority)>>
    ELSE Draft_MemberScan(members, valueStr, i + 1)

Draft_GetPosition(db, queueName, value, net) ==
    IF net[1]
    THEN [rdb |-> db, ret |-> [Ret(ErrRedis) EXCEPT !.priority = -1, !.pos = -1]]
    ELSE LET members == ZRangeWithScores(db, queueName)
             found == Draft_MemberScan(members, Sprintf(value), 1)
         IN [rdb |-> db,
             ret |-> [Ret(IF MemberFound(members, Sprintf(value))
                          THEN NoErr ELSE ErrNotFound) EXCEPT
                         !.priority = found[1], !.pos = found[2]]]

\* InsertAtTop with the score a whole priority lower: float64(priority) - 1.
RedisPriorityQueue_InsertAtTop_WholeStep(db, queueName, value, priority, net) ==
    IF BadPriority(priority) THEN [rdb |-> db, ret |-> Ret(ErrPriority)]
    ELSE LET valueStr == Sprintf(value)
             removed == IF net[1] THEN db ELSE ZRem(db, queueName, valueStr).db
             score == Float64(priority) - MicroPerUnit
         IN IF net[2] THEN [rdb |-> removed, ret |-> Ret(ErrRedis)]
            ELSE [rdb |-> ZAdd(removed, queueName, Z(score, valueStr)),
                  ret |-> Ret(NoErr)]

RedisPriorityQueue_InsertAtTop(db, queueName, value, priority, net) ==
    IF BadPriority(priority) THEN [rdb |-> db, ret |-> Ret(ErrPriority)]
    ELSE LET valueStr == Sprintf(value)
             \* rpq.client.ZRem(...): its result and error are dropped
             removed == IF net[1] THEN db ELSE ZRem(db, queueName, valueStr).db
             score == Float64(priority) - 1
         IN IF net[2] THEN [rdb |-> removed, ret |-> Ret(ErrRedis)]
            ELSE [rdb |-> ZAdd(removed, queueName, Z(score, valueStr)),
                  ret |-> Ret(NoErr)]

\* DeleteItem without the count == 0 test.
RedisPriorityQueue_DeleteItem_NoCountTest(db, queueName, value, net) ==
    IF net[1] THEN [rdb |-> db, ret |-> Ret(ErrRedis)]
    ELSE [rdb |-> ZRem(db, queueName, Sprintf(value)).db, ret |-> Ret(NoErr)]

RedisPriorityQueue_DeleteItem(db, queueName, value, net) ==
    IF net[1] THEN [rdb |-> db, ret |-> Ret(ErrRedis)]
    ELSE LET rem == ZRem(db, queueName, Sprintf(value)) IN
         IF rem.count = 0 THEN [rdb |-> rem.db, ret |-> Ret(ErrNotFound)]
         ELSE [rdb |-> rem.db, ret |-> Ret(NoErr)]

\* ------------------------------------------------------ the call history
\* hist[engine][queueName] lists per priority, in call order, the Enqueue and
\* InsertAtTop calls that the engine accepted and whose item it still holds.
\* It is kept only while the string forms of the values held are pairwise
\* distinct (clean); a queue that is empty again starts a new history.

NewLog == [clean |-> TRUE, calls |-> [priority \in 0 .. NumLevels - 1 |-> <<>>]]

Call(kind, value, priority) == [kind |-> kind, value |-> value, priority |-> priority]

NoCall == Call("", Nil, 0)

\* The string forms of the values a slice-backed queue holds.
SliceHeldStrings(m, queueName) ==
    IF queueName \notin DOMAIN m THEN {}
    ELSE UNION {{Sprintf(m[queueName][priority][i].Value) :
                    i \in 1 .. Len(m[queueName][priority])} :
                priority \in 0 .. NumLevels - 1}

\* The members a Redis-backed queue holds.
RedisHeldStrings(db, queueName) == {x.Member : x \in db[queueName]}

\* The string forms of the values of the calls of a history.
LogStrings(log) ==
    UNION {{Sprintf(log.calls[priority][i].value) :
               i \in 1 .. Len(log.calls[priority])} :
           priority \in 0 .. NumLevels - 1}

\* The history after a call: added says whether the call was an accepted
\* Enqueue or InsertAtTop (call), held is what the queue holds after it.
NextLog(log, added, call, held) ==
    IF held = {} THEN NewLog
    ELSE IF ~log.clean THEN log
    ELSE IF added /\ Sprintf(call.value) \in LogStrings(log)
         THEN [clean |-> FALSE, calls |-> NewLog.calls]
    ELSE LET Held(c) == Sprintf(c.value) \in held
         IN [clean |-> TRUE,
             calls |-> [priority \in 0 .. NumLevels - 1 |->
                           SelectSeq(IF added /\ priority = call.priority
                                     THEN Append(log.calls[priority], call)
                                     ELSE log.calls[priority], Held)]]

NextHist(m, db, queueName, sliceAdded, redisAdded, call) ==
    [SlicePQ |-> [q \in QueueNames |->
                     NextLog(hist.SlicePQ[q],
                             sliceAdded /\ q = queueName /\ call # NoCall, call,
                             SliceHeldStrings(m, q))],
     RedisPQ |-> [q \in QueueNames |->
                     NextLog(hist.RedisPQ[q],
                             redisAdded /\ q = queueName /\ call # NoCall, call,
                             RedisHeldStrings(db, q))]]

\* ------------------------------------------------------------ the machine

\* len of every level of a queue of the slice-backed engine, from level i on.
RECURSIVE SumLen(_, _)
SumLen(queues, i) ==
    IF i >= NumLevels THEN 0 ELSE Len(queues[i]) + SumLen(queues, i + 1)

\* The items the slice-backed engine holds.
RECURSIVE SliceSize(_)
SliceSize(m) ==
    IF DOMAIN m = {} THEN 0
    ELSE LET n == CHOOSE n \in DOMAIN m : TRUE
         IN SumLen(m[n], 0) + SliceSize([k \in DOMAIN m \ {n} |-> m[k]])

\* The members the store holds.
RECURSIVE StoreSize(_)
StoreSize(db) ==
    IF DOMAIN db = {} THEN 0
    ELSE LET k == CHOOSE k \in DOMAIN db : TRUE
         IN Cardinality(db[k]) + StoreSize([j \in DOMAIN db \ {k} |-> db[j]])

\* Room for the item in both engines: the store needs none for a member it
\* holds already.
Room(queueName, value) ==
    /\ SliceSize(mpq) < MaxItems
    /\ \/ StoreSize(rdb) < MaxItems
       \/ Sprintf(value) \in RedisHeldStrings(rdb, queueName)

\* An engine that is not under test is not called.
NotCalled == Ret("not called")

\* tests := {"SlicePQ", NewMultiPriorityQueue()}, {"RedisPQ", NewRedisPriorityQueue()}
OnSlice == impl \in {"SlicePQ", "Both", "Names"}
OnRedis == impl \in {"RedisPQ", "Both", "RedisDraft", "Names"}

\* pq.Method(...) on the engines under test: each result, or NotCalled.
Slice(call) == IF OnSlice THEN call ELSE [mpq |-> mpq, ret |-> NotCalled]
Redis(call) == IF OnRedis THEN call ELSE [rdb |-> rdb, ret |-> NotCalled]

\* before: the history of the queue called, as it was before the call; net:
\* which of the call's store commands failed.
Called(op, queueName, value, priority, slice, redis, net) ==
    [op |-> op, queueName |-> queueName, value |-> value, priority |-> priority,
     slice |-> slice, redis |-> redis, net |-> net,
     before |-> IF queueName \in QueueNames
                THEN [SlicePQ |-> hist.SlicePQ[queueName],
                      RedisPQ |-> hist.RedisPQ[queueName]]
                ELSE [SlicePQ |-> NewLog, RedisPQ |-> NewLog]]

\* The goroutines that call the engine concurrently.
Threads == {"t1", "t2"}

\* The value each goroutine passes.
ThreadValue(t) == IF t = "t1" THEN StringValue("a") ELSE StringValue("1")

\* The priorities the goroutines pass: one in range, one outside.
ThreadPriorities == {0, 10}

\* The RedisPriorityQueue values built on the one store, each with its mutex:
\* NewRedisPriorityQueue("localhost:6379", ...) of the test and of a benchmark.
Instances == {"rpq1", "rpq2"}

\* MultiPriorityQueue.mutex, and PriorityQueue.mutex of the queue of each name.
RegistryMutex == "mpq.mutex"
Mutexes == {RegistryMutex} \cup QueueNames \cup Instances

\* A goroutine outside every call; op and ret are the call it returned from.
Idle(op, ret) ==
    [pc |-> "idle", op |-> op, rpq |-> "", queueName |-> "", value |-> Nil,
     priority |-> 0, exists |-> FALSE, tmp |-> <<>>, ret |-> ret]

\* The engines as constructed, the test's queues cleared in the store.
Start ==
    /\ mpq = NewMultiPriorityQueue
    /\ rdb = EmptyDB
    /\ hist = [SlicePQ |-> [q \in QueueNames |-> NewLog],
               RedisPQ |-> [q \in QueueNames |-> NewLog]]
    /\ last = Called("New", "", Nil, 0, NotCalled, NotCalled, Reliable)
    /\ passed = {}
    /\ th = [t \in Threads |-> Idle("", NotCalled)]
    /\ mu = [l \in Mutexes |-> "free"]

Init == impl \in {"SlicePQ", "RedisPQ"} /\ Start

\* What every call leaves: the engines' new states, the results, the history.
Returns(op, queueName, value, priority, s, r, call, net) ==
    /\ impl' = impl
    /\ mpq' = s.mpq
    /\ rdb' = r.rdb
    /\ last' = Called(op, queueName, value, priority, s.ret, r.ret, net)
    /\ hist' = NextHist(s.mpq, r.rdb, queueName, s.ret.err = NoErr,
                        r.ret.err = NoErr, call)
    /\ passed' = IF impl = "Both" /\ call # NoCall
                 THEN passed \cup {value} ELSE passed
    /\ UNCHANGED <<th, mu>>

AddQueue(name) ==
    Returns("AddQueue", name, Nil, 0,
            Slice(MultiPriorityQueue_AddQueue(mpq, name)),
            Redis(RedisPriorityQueue_AddQueue(rdb, name)), NoCall, Reliable)

Enqueue(queueName, value, priority, net) ==
    /\ BadPriority(priority) \/ Room(queueName, value)
    /\ Returns("Enqueue", queueName, value, priority,
               Slice(MultiPriorityQueue_Enqueue(mpq, queueName, value, priority)),
               Redis(RedisPriorityQueue_Enqueue(rdb, queueName, value, priority, net)),
               Call("Enqueue", value, priority), net)

Dequeue(queueName, net) ==
    Returns("Dequeue", queueName, Nil, 0,
            Slice(MultiPriorityQueue_Dequeue(mpq, queueName)),
            Redis(RedisPriorityQueue_Dequeue(rdb, queueName, net)), NoCall, net)

IsEmpty(queueName, net) ==
    Returns("IsEmpty", queueName, Nil, 0,
            Slice(MultiPriorityQueue_IsEmpty(mpq, queueName)),
            Redis(RedisPriorityQueue_IsEmpty(rdb, queueName, net)), NoCall, net)

ListContents(queueName, net) ==
    Returns("ListContents", queueName, Nil, 0,
            Slice(MultiPriorityQueue_ListContents(mpq, queueName)),
            Redis(IF impl = "RedisDraft"
                  THEN Draft_ListContents(rdb, queueName, net)
                  ELSE RedisPriorityQueue_ListContents(rdb, queueName, net)), NoCall, net)

GetPosition(queueName, value, net) ==
    Returns("GetPosition", queueName, value, 0,
            Slice(MultiPriorityQueue_GetPosition(mpq, queueName, value)),
            Redis(IF impl = "RedisDraft"
                  THEN Draft_GetPosition(rdb, queueName, value, net)
                  ELSE RedisPriorityQueue_GetPosition(rdb, queueName, value, net)),
            NoCall, net)

InsertAtTop(queueName, value, priority, net) ==
    /\ BadPriority(priority) \/ Room(queueName, value)
    /\ Returns("InsertAtTop", queueName, value, priority,
               Slice(MultiPriorityQueue_InsertAtTop(mpq, queueName, value, priority)),
               Redis(RedisPriorityQueue_InsertAtTop(rdb, queueName, value, priority, net)),
               Call("InsertAtTop", value, priority), net)

\* The calls of the PriorityQueuer interface on the engine under test, the
\* store answering every command.
Next ==
    \/ \E name \in QueueNames : AddQueue(name)
    \/ \E q \in QueueNames, in \in AddInputs : Enqueue(q, in[1], in[2], Reliable)
    \/ \E q \in QueueNames : Dequeue(q, Reliable)
    \/ \E q \in QueueNames : IsEmpty(q, Reliable)
    \/ \E q \in QueueNames : ListContents(q, Reliable)
    \/ \E q \in QueueNames, v \in Values : GetPosition(q, v, Reliable)
    \/ \E q \in QueueNames, in \in AddInputs : InsertAtTop(q, in[1], in[2], Reliable)

Spec == Init /\ [][Next]_vars

\* pq.DeleteItem(queueName, value) on the engine under test.
DeleteItem(queueName, value, net) ==
    Returns("DeleteItem", queueName, value, 0,
            Slice(MultiPriorityQueue_DeleteItem(mpq, queueName, value)),
            Redis(RedisPriorityQueue_DeleteItem(rdb, queueName, value, net)),
            NoCall, net)

\* redisPQ.ClearQueues(queueNames...), as the test calls it; with no name it
\* issues no command, so none fails.
ClearQueues(queues, net) ==
    /\ OnRedis
    /\ queues = {} => ~net[1]
    /\ Returns("ClearQueues", "", Nil, 0,
               [mpq |-> mpq, ret |-> NotCalled],
               RedisPriorityQueue_ClearQueues(rdb, queues, net), NoCall, net)

\* The Redis-backed engine with all its methods, on a store whose commands
\* may fail.
InitStore == impl = "RedisPQ" /\ Start

NextStore ==
    \/ \E name \in SharedKeys : AddQueue(name)
    \/ \E q \in SharedKeys, in \in AddInputs, net \in OneCommand :
          Enqueue(q, in[1], in[2], net)
    \/ \E q \in SharedKeys, net \in OneCommand : Dequeue(q, net)
    \/ \E q \in SharedKeys, net \in OneCommand : IsEmpty(q, net)
    \/ \E q \in SharedKeys, net \in OneCommand : ListContents(q, net)
    \/ \E q \in SharedKeys, v \in Values, net \in OneCommand : GetPosition(q, v, net)
    \/ \E q \in SharedKeys, in \in AddInputs, net \in Unreliable :
          InsertAtTop(q, in[1], in[2], net)
    \/ \E q \in SharedKeys, v \in Values, net \in OneCommand : DeleteItem(q, v, net)
    \/ \E queues \in SUBSET QueueNames, net \in OneCommand : ClearQueues(queues, net)

SpecStore == InitStore /\ [][NextStore]_vars

\* The slice-backed engine with DeleteItem among its methods, as the subtests
\* of TestPriorityQueue call it.
InitSlice == impl = "SlicePQ" /\ Start

NextSlice ==
    \/ \E name \in QueueNames : AddQueue(name)
    \/ \E q \in QueueNames, in \in AddInputs : Enqueue(q, in[1], in[2], Reliable)
    \/ \E q \in QueueNames : Dequeue(q, Reliable)
    \/ \E q \in QueueNames : ListContents(q, Reliable)
    \/ \E q \in QueueNames, in \in AddInputs : InsertAtTop(q, in[1], in[2], Reliable)
    \/ \E q \in QueueNames, v \in Values : DeleteItem(q, v, Reliable)

SpecSlice == InitSlice /\ [][NextSlice]_vars

\* The same calls on the engine of priorityqueue/redispriorityqueue.go.
InitDraft == impl = "RedisDraft" /\ Start

SpecDraft == InitDraft /\ [][Next]_vars

\* Both engines side by side, as testQueue(slicePQ) and testQueue(redisPQ)
\* make the same calls on each, started empty.
InitBoth == impl = "Both" /\ Start

\* A Go string that no Enqueue or InsertAtTop was called with so far.
Fresh(value) == value.t = "string" /\ value \notin passed

\* The same calls on both engines: on one queue name after its AddQueue, with
\* priorities in range and pairwise distinct string values.
NextBoth ==
    \/ \E name \in QueueNames : AddQueue(name)
    \/ \E q \in DOMAIN mpq, v \in Values, p \in Priorities :
          Fresh(v) /\ ~BadPriority(p) /\ Enqueue(q, v, p, Reliable)
    \/ \E q \in DOMAIN mpq : Dequeue(q, Reliable)
    \/ \E q \in DOMAIN mpq : IsEmpty(q, Reliable)
    \/ \E q \in DOMAIN mpq : ListContents(q, Reliable)
    \/ \E q \in DOMAIN mpq, v \in Values : v.t = "string" /\ GetPosition(q, v, Reliable)
    \/ \E q \in DOMAIN mpq, v \in Values, p \in Priorities :
          Fresh(v) /\ ~BadPriority(p) /\ InsertAtTop(q, v, p, Reliable)

SpecBoth == InitBoth /\ [][NextBoth]_vars

\* Both engines side by side again, called with every name whether AddQueue
\* was called with it or not: the registry of the slice-backed engine then
\* tells which names were added.
InitNames == impl = "Names" /\ Start

\* What the calls pass: a string and an int, at the two ends of the priority
\* range and outside it.
NameInputs == {<<StringValue("a"), 0>>, <<IntValue(1), 9>>, <<StringValue("a"), 10>>}

NextNames ==
    \/ \E name \in QueueNames : AddQueue(name)
    \/ \E q \in QueueNames, in \in NameInputs : Enqueue(q, in[1], in[2], Reliable)
    \/ \E q \in QueueNames : Dequeue(q, Reliable)
    \/ \E q \in QueueNames : IsEmpty(q, Reliable)
    \/ \E q \in QueueNames : ListContents(q, Reliable)
    \/ \E q \in QueueNames, in \in NameInputs : GetPosition(q, in[1], Reliable)
    \/ \E q \in QueueNames, in \in NameInputs : InsertAtTop(q, in[1], in[2], Reliable)

SpecNames == InitNames /\ [][NextNames]_vars

\* ------------------------------------- goroutines on the slice-backed engine
\* Each method of MultiPriorityQueue, statement by statement: the registry
\* mutex around the lookup, then the queue's mutex around the work on its
\* levels, which reads them and writes the ones it changes.

\* A Lock that does not wait.
Lock_NoWait(l, t) == mu' = [mu EXCEPT ![l] = t]

\* mutex.Lock(): waits while another goroutine holds the mutex.
Lock(l, t) == mu[l] = "free" /\ mu' = [mu EXCEPT ![l] = t]

\* mutex.Unlock()
Unlock(l) == mu' = [mu EXCEPT ![l] = "free"]

\* The methods, and of them the ones that add an item.
Methods ==
    {"AddQueue", "Enqueue", "Dequeue", "IsEmpty", "ListContents", "GetPosition",
     "InsertAtTop"}
Adds == {"Enqueue", "InsertAtTop"}

\* The method op on a registry m.
Method(op, m, queueName, value, priority) ==
    CASE op = "AddQueue" -> MultiPriorityQueue_AddQueue(m, queueName)
      [] op = "Enqueue" -> MultiPriorityQueue_Enqueue(m, queueName, value, priority)
      [] op = "Dequeue" -> MultiPriorityQueue_Dequeue(m, queueName)
      [] op = "IsEmpty" -> MultiPriorityQueue_IsEmpty(m, queueName)
      [] op = "ListContents" -> MultiPriorityQueue_ListContents(m, queueName)
      [] op = "GetPosition" -> MultiPriorityQueue_GetPosition(m, queueName, value)
      [] op = "InsertAtTop" -> MultiPriorityQueue_InsertAtTop(m, queueName, value, priority)

\* The goroutines that are in a call that adds an item.
Adding == {t \in Threads : th[t].pc # "idle" /\ th[t].op \in Adds}

\* The call: Enqueue and InsertAtTop test the priority before any lock.
Begin(t, op, queueName, priority) ==
    /\ th[t].pc = "idle"
    /\ op \in Adds => SliceSize(mpq) + Cardinality(Adding) < MaxItems
    /\ th' = [th EXCEPT ![t] =
                 IF op \in Adds /\ BadPriority(priority)
                 THEN Idle(op, Ret(ErrPriority))
                 ELSE [pc |-> "lockRegistry", op |-> op, rpq |-> "",
                       queueName |-> queueName,
                       value |-> ThreadValue(t), priority |-> priority,
                       exists |-> FALSE, tmp |-> <<>>, ret |-> NotCalled]]
    /\ UNCHANGED <<impl, mpq, rdb, last, hist, passed, mu>>

\* The lookup begun without mpq.mutex.Lock().
LockRegistry_Missing(t) ==
    /\ th[t].pc = "lockRegistry"
    /\ mu' = mu
    /\ th' = [th EXCEPT ![t].pc = "lookup"]
    /\ UNCHANGED <<impl, mpq, rdb, last, hist, passed>>

\* mpq.mutex.Lock()
LockRegistry(t) ==
    /\ th[t].pc = "lockRegistry"
    /\ Lock(RegistryMutex, t)
    /\ th' = [th EXCEPT ![t].pc = "lookup"]
    /\ UNCHANGED <<impl, mpq, rdb, last, hist, passed>>

\* pq, exists := mpq.queues[queueName]; in AddQueue the test
\* if _, exists := mpq.queues[name]; exists.
Lookup(t) ==
    /\ th[t].pc = "lookup"
    /\ th' = [th EXCEPT ![t].pc = IF th[t].op = "AddQueue" THEN "insert"
                                  ELSE "unlockRegistry",
                        ![t].exists = th[t].queueName \in DOMAIN mpq]
    /\ UNCHANGED <<impl, mpq, rdb, last, hist, passed, mu>>

\* AddQueue after its test: the return of the error, or
\* mpq.queues[name] = NewPriorityQueue().
Insert(t) ==
    /\ th[t].pc = "insert"
    /\ IF th[t].exists
       THEN /\ mpq' = mpq
            /\ th' = [th EXCEPT ![t].pc = "unlockRegistry",
                                ![t].ret = Ret(ErrExists)]
       ELSE /\ mpq' = [n \in DOMAIN mpq \cup {th[t].queueName} |->
                          IF n = th[t].queueName THEN NewPriorityQueue
                          ELSE mpq[n]]
            /\ th' = [th EXCEPT ![t].pc = "unlockRegistry", ![t].ret = Ret(NoErr)]
    /\ UNCHANGED <<impl, rdb, last, hist, passed, mu>>

\* The registry mutex unlocked by defer: kept while the queue is worked on.
UnlockRegistry_Deferred(t) ==
    /\ th[t].pc = "unlockRegistry"
    /\ IF th[t].op # "AddQueue" /\ th[t].exists
       THEN mu' = mu ELSE Unlock(RegistryMutex)
    /\ th' = [th EXCEPT ![t] =
                 IF th[t].op = "AddQueue" THEN Idle(th[t].op, th[t].ret)
                 ELSE IF ~th[t].exists
                 THEN Idle(th[t].op,
                           Method(th[t].op, NewMultiPriorityQueue, th[t].queueName,
                                  th[t].value, th[t].priority).ret)
                 ELSE [th[t] EXCEPT !.pc = "lockQueue"]]
    /\ UNCHANGED <<impl, mpq, rdb, last, hist, passed>>

\* mpq.mutex.Unlock(), and the return of AddQueue and of a failed lookup.
UnlockRegistry(t) ==
    /\ th[t].pc = "unlockRegistry"
    /\ Unlock(RegistryMutex)
    /\ th' = [th EXCEPT ![t] =
                 IF th[t].op = "AddQueue" THEN Idle(th[t].op, th[t].ret)
                 ELSE IF ~th[t].exists
                 THEN Idle(th[t].op,
                           Method(th[t].op, NewMultiPriorityQueue, th[t].queueName,
                                  th[t].value, th[t].priority).ret)
                 ELSE [th[t] EXCEPT !.pc = "lockQueue"]]
    /\ UNCHANGED <<impl, mpq, rdb, last, hist, passed>>

\* The work on the levels begun without pq.mutex.Lock().
LockQueue_Missing(t) ==
    /\ th[t].pc = "lockQueue"
    /\ mu' = mu
    /\ th' = [th EXCEPT ![t].pc = "read"]
    /\ UNCHANGED <<impl, mpq, rdb, last, hist, passed>>

\* pq.mutex.Lock()
LockQueue(t) ==
    /\ th[t].pc = "lockQueue"
    /\ Lock(th[t].queueName, t)
    /\ th' = [th EXCEPT ![t].pc = "read"]
    /\ UNCHANGED <<impl, mpq, rdb, last, hist, passed>>

\* The reads of pq.queues[...] the method makes.
Read(t) ==
    /\ th[t].pc = "read"
    /\ th' = [th EXCEPT ![t].pc = "write", ![t].tmp = mpq[th[t].queueName]]
    /\ UNCHANGED <<impl, mpq, rdb, last, hist, passed, mu>>

\* The result the method computes from what it read, and its assignment
\* pq.queues[i] = ... of the level it changes.
Write(t) ==
    /\ th[t].pc = "write"
    /\ LET q == th[t].queueName
           done == Method(th[t].op, [n \in {q} |-> th[t].tmp], q,
                          th[t].value, th[t].priority)
       IN /\ mpq' = [mpq EXCEPT ![q] =
                        [i \in 0 .. NumLevels - 1 |->
                            IF done.mpq[q][i] # th[t].tmp[i]
                            THEN done.mpq[q][i] ELSE mpq[q][i]]]
          /\ th' = [th EXCEPT ![t].pc = "unlockQueue", ![t].ret = done.ret,
                              ![t].tmp = <<>>]
    /\ UNCHANGED <<impl, rdb, last, hist, passed, mu>>

\* A return without the deferred Unlock of the queue's mutex.
UnlockQueue_Missing(t) ==
    /\ th[t].pc = "unlockQueue"
    /\ mu' = mu
    /\ th' = [th EXCEPT ![t] = Idle(th[t].op, th[t].ret)]
    /\ UNCHANGED <<impl, mpq, rdb, last, hist, passed>>

\* defer pq.mutex.Unlock(), and the return.
UnlockQueue(t) ==
    /\ th[t].pc = "unlockQueue"
    /\ Unlock(th[t].queueName)
    /\ th' = [th EXCEPT ![t] = Idle(th[t].op, th[t].ret)]
    /\ UNCHANGED <<impl, mpq, rdb, last, hist, passed>>

InitThreads == impl = "Threads" /\ Start

NextThreads ==
    \E t \in Threads :
        \/ \E op \in Methods, q \in QueueNames, p \in ThreadPriorities :
              Begin(t, op, q, p)
        \/ LockRegistry(t)
        \/ Lookup(t)
        \/ Insert(t)
        \/ UnlockRegistry(t)
        \/ LockQueue(t)
        \/ Read(t)
        \/ Write(t)
        \/ UnlockQueue(t)

SpecThreads == InitThreads /\ [][NextThreads]_vars

\* The same goroutines under the scheduling of the Go runtime: a goroutine
\* that can run its next statement runs it in the end, and a goroutine that
\* waits in Lock gets the mutex in the end, since a sync.Mutex whose waiter
\* has waited long is handed to that waiter by Unlock. No goroutine has to
\* begin a call.
Statement(t) ==
    \/ Lookup(t) \/ Insert(t) \/ UnlockRegistry(t)
    \/ Read(t) \/ Write(t) \/ UnlockQueue(t)

Scheduling ==
    \A t \in Threads :
        /\ WF_vars(Statement(t))
        /\ SF_vars(LockRegistry(t))
        /\ SF_vars(LockQueue(t))

\* The calls are made on the one queue name, with a priority in range.
NextThreadsFair ==
    \E t \in Threads :
        \/ \E op \in Methods, q \in SharedKeys : Begin(t, op, q, 0)
        \/ LockRegistry(t)
        \/ Lookup(t)
        \/ Insert(t)
        \/ UnlockRegistry(t)
        \/ LockQueue(t)
        \/ Read(t)
        \/ Write(t)
        \/ UnlockQueue(t)

SpecThreadsFair == InitThreads /\ [][NextThreadsFair]_vars /\ Scheduling

\* ------------------------------------- goroutines on the Redis-backed engine
\* Each method of RedisPriorityQueue, statement by statement: the mutex of the
\* RedisPriorityQueue it is called on, then its store commands one by one.

StoreMethods ==
    {"AddQueue", "Enqueue", "Dequeue", "IsEmpty", "ListContents", "GetPosition",
     "InsertAtTop", "DeleteItem"}

\* The methods that pass a value of the caller's choice.
ByValue == {"GetPosition", "DeleteItem"}

\* The method op on a store db, its commands answered.
StoreMethod(op, db, queueName, value, priority) ==
    CASE op = "AddQueue" -> RedisPriorityQueue_AddQueue(db, queueName)
      [] op = "Enqueue" ->
            RedisPriorityQueue_Enqueue(db, queueName, value, priority, Reliable)
      [] op = "Dequeue" -> RedisPriorityQueue_Dequeue(db, queueName, Reliable)
      [] op = "IsEmpty" -> RedisPriorityQueue_IsEmpty(db, queueName, Reliable)
      [] op = "ListContents" -> RedisPriorityQueue_ListContents(db, queueName, Reliable)
      [] op = "GetPosition" ->
            RedisPriorityQueue_GetPosition(db, queueName, value, Reliable)
      [] op = "InsertAtTop" ->
            RedisPriorityQueue_InsertAtTop(db, queueName, value, priority, Reliable)
      [] op = "DeleteItem" -> RedisPriorityQueue_DeleteItem(db, queueName, value, Reliable)

\* The call on the RedisPriorityQueue r: AddQueue returns at once, Enqueue and
\* InsertAtTop test the priority before the lock.
StoreBegin(t, r, op, queueName, value, priority) ==
    /\ th[t].pc = "idle"
    /\ op \notin ByValue => value = ThreadValue(t)
    /\ op \in Adds => StoreSize(rdb) + Cardinality(Adding) < MaxItems
    /\ th' = [th EXCEPT ![t] =
                 IF op = "AddQueue" THEN Idle(op, Ret(NoErr))
                 ELSE IF op \in Adds /\ BadPriority(priority)
                 THEN Idle(op, Ret(ErrPriority))
                 ELSE [pc |-> "lockStore", op |-> op, rpq |-> r,
                       queueName |-> queueName, value |-> value,
                       priority |-> priority, exists |-> FALSE, tmp |-> <<>>,
                       ret |-> NotCalled]]
    /\ UNCHANGED <<impl, mpq, rdb, last, hist, passed, mu>>

\* A method that goes on without rpq.mutex.
StoreLock_NoMutex(t) ==
    /\ th[t].pc = "lockStore"
    /\ th' = [th EXCEPT ![t].pc = IF th[t].op = "InsertAtTop" THEN "zrem" ELSE "command"]
    /\ UNCHANGED <<impl, mpq, rdb, last, hist, passed, mu>>

\* rpq.mutex.Lock()
StoreLock(t) ==
    /\ th[t].pc = "lockStore"
    /\ Lock(th[t].rpq, t)
    /\ th' = [th EXCEPT ![t].pc = IF th[t].op = "InsertAtTop" THEN "zrem" ELSE "command"]
    /\ UNCHANGED <<impl, mpq, rdb, last, hist, passed>>

\* rpq.client.ZRem(rpq.ctx, queueName, valueStr) of InsertAtTop. The method
\* drops the reply; exists keeps whether the command removed the member.
StoreZRem(t) ==
    /\ th[t].pc = "zrem"
    /\ LET rem == ZRem(rdb, th[t].queueName, Sprintf(th[t].value)) IN
       /\ rdb' = rem.db
       /\ th' = [th EXCEPT ![t].pc = "zadd", ![t].exists = rem.count > 0]
    /\ UNCHANGED <<impl, mpq, last, hist, passed, mu>>

\* The ZAdd of InsertAtTop, with score := float64(priority) - 0.000001.
StoreZAdd(t) ==
    /\ th[t].pc = "zadd"
    /\ rdb' = ZAdd(rdb, th[t].queueName,
                   Z(Float64(th[t].priority) - 1, Sprintf(th[t].value)))
    /\ th' = [th EXCEPT ![t].pc = "unlockStore", ![t].ret = Ret(NoErr)]
    /\ UNCHANGED <<impl, mpq, last, hist, passed, mu>>

\* The one store command of every other method, and what it makes of the reply.
StoreCommand(t) ==
    /\ th[t].pc = "command"
    /\ LET done == StoreMethod(th[t].op, rdb, th[t].queueName, th[t].value,
                               th[t].priority)
       IN /\ rdb' = done.rdb
          /\ th' = [th EXCEPT ![t].pc = "unlockStore", ![t].ret = done.ret]
    /\ UNCHANGED <<impl, mpq, last, hist, passed, mu>>

\* defer rpq.mutex.Unlock(), and the return; of the result the goroutine
\* keeps the error.
StoreUnlock(t) ==
    /\ th[t].pc = "unlockStore"
    /\ Unlock(th[t].rpq)
    /\ th' = [th EXCEPT ![t] = Idle(th[t].op, Ret(th[t].ret.err))]
    /\ UNCHANGED <<impl, mpq, rdb, last, hist, passed>>

InitStoreThreads == impl = "StoreThreads" /\ Start

NextStoreThreads ==
    \E t \in Threads :
        \/ \E r \in Instances, op \in StoreMethods, q \in SharedKeys,
              v \in {ThreadValue(u) : u \in Threads}, p \in ThreadPriorities :
              StoreBegin(t, r, op, q, v, p)
        \/ StoreLock(t)
        \/ StoreZRem(t)
        \/ StoreZAdd(t)
        \/ StoreCommand(t)
        \/ StoreUnlock(t)

SpecStoreThreads == InitStoreThreads /\ [][NextStoreThreads]_vars

\* ------------------------------------------------------------ properties

Levels == 0 .. NumLevels - 1

\* The call made last was op, on the slice-backed engine.
SliceCalled(op) == last.op = op /\ last.slice # NotCalled

\* The call made last was op, on the Redis-backed engine.
RedisCalled(op) == last.op = op /\ last.redis # NotCalled

\* Whether, of two calls of the history of one priority, the item of the
\* i-th is to be dequeued before the item of the j-th: an InsertAtTop item
\* before an Enqueue item, the later InsertAtTop item before the earlier one,
\* the earlier Enqueue item before the later one.
Precedes(calls, i, j) ==
    \/ calls[i].kind = "InsertAtTop" /\ calls[j].kind = "Enqueue"
    \/ calls[i].kind = "InsertAtTop" /\ calls[j].kind = "InsertAtTop" /\ i > j
    \/ calls[i].kind = "Enqueue" /\ calls[j].kind = "Enqueue" /\ i < j

\* Where the history holds the call that added val: <<priority, index>>.
AddedAt(log, val) ==
    {<<p, j>> \in Levels \X (1 .. MaxItems + 1) :
        j <= Len(log.calls[p]) /\ Sprintf(log.calls[p][j].value) = Sprintf(val)}

\* C1: on the slice-backed engine a successful Dequeue returns the front item
\* of the lowest-numbered level that holds an item, removes exactly that item
\* and leaves every other item of every queue where it was; so no item of a
\* level p2 is returned while a level p1 < p2 holds an item.
C1_DequeueTakesFrontOfFirstLevel ==
    [][(last'.op = "Dequeue" /\ last'.slice.err = NoErr) =>
          LET q == last'.queueName IN
          /\ q \in DOMAIN mpq
          /\ \E p \in Levels :
                /\ \A p1 \in 0 .. p - 1 : mpq[q][p1] = <<>>
                /\ mpq[q][p] # <<>>
                /\ last'.slice.val = Head(mpq[q][p]).Value
                /\ mpq' = [mpq EXCEPT ![q][p] = Tail(mpq[q][p])]]_vars

\* C1 witness: a Dequeue returned an item of level 0 while level 9 of the same
\* queue held an item, which it still holds.
C1_Witness ==
    /\ SliceCalled("Dequeue") /\ last.slice.err = NoErr
    /\ last.before.SlicePQ.clean
    /\ \E j \in 1 .. MaxItems : <<0, j>> \in AddedAt(last.before.SlicePQ, last.slice.val)
    /\ Len(mpq[last.queueName][9]) > 0

\* C2: on the slice-backed engine, within one priority level, the item a
\* Dequeue returns is preceded by no item still held: no InsertAtTop item
\* waits behind an Enqueue item, no later InsertAtTop item behind an earlier
\* one, no earlier Enqueue item behind a later one.
C2_SliceOrderWithinLevel ==
    (SliceCalled("Dequeue") /\ last.slice.err = NoErr /\ last.before.SlicePQ.clean) =>
        LET log == last.before.SlicePQ IN
        /\ AddedAt(log, last.slice.val) # {}
        /\ \A at \in AddedAt(log, last.slice.val) :
              \A i \in 1 .. Len(log.calls[at[1]]) :
                  ~Precedes(log.calls[at[1]], i, at[2])

\* C2 witness: a Dequeue returned an InsertAtTop item while an Enqueue item
\* added before it waited at the same priority.
C2_Witness ==
    /\ SliceCalled("Dequeue") /\ last.slice.err = NoErr
    /\ last.before.SlicePQ.clean
    /\ \E at \in AddedAt(last.before.SlicePQ, last.slice.val) :
          LET calls == last.before.SlicePQ.calls[at[1]] IN
          /\ calls[at[2]].kind = "InsertAtTop"
          /\ \E i \in 1 .. at[2] - 1 : calls[i].kind = "Enqueue"

\* The calls of a history that are Enqueue calls, as the strings the store
\* returns for their values.
RECURSIVE EnqueuedStrings(_)
EnqueuedStrings(calls) ==
    IF calls = <<>> THEN <<>>
    ELSE (IF Head(calls).kind = "Enqueue"
          THEN <<StringValue(Sprintf(Head(calls).value))>> ELSE <<>>)
         \o EnqueuedStrings(Tail(calls))

\* What a listing shows under priority p.
Listed(contents, p) == IF p \in DOMAIN contents THEN contents[p] ELSE <<>>

\* The entries of seq that are entries of among, in the order of seq.
RECURSIVE Restrict(_, _)
Restrict(seq, among) ==
    IF seq = <<>> THEN <<>>
    ELSE (IF \E i \in 1 .. Len(among) : among[i] = Head(seq)
          THEN <<Head(seq)>> ELSE <<>>)
         \o Restrict(Tail(seq), among)

\* C3: on the Redis-backed engine, values Enqueued at the same priority (and
\* not touched since) come back in the order of their Enqueue calls: a Dequeue
\* that returns an Enqueue item leaves no earlier Enqueue item of that
\* priority behind, and ListContents lists the Enqueue items of a priority in
\* call order.
C3_StoreFIFO ==
    /\ (RedisCalled("Dequeue") /\ last.redis.err = NoErr /\ last.before.RedisPQ.clean) =>
          \A at \in AddedAt(last.before.RedisPQ, last.redis.val) :
              LET calls == last.before.RedisPQ.calls[at[1]] IN
              calls[at[2]].kind = "Enqueue" =>
                  \A i \in 1 .. at[2] - 1 : calls[i].kind # "Enqueue"
    /\ (RedisCalled("ListContents") /\ last.redis.err = NoErr /\ last.before.RedisPQ.clean) =>
          \A p \in Levels :
              LET enqueued == EnqueuedStrings(last.before.RedisPQ.calls[p])
              IN Restrict(Listed(last.redis.contents, p), enqueued) = enqueued

\* C4: on the Redis-backed engine, a Dequeue that returns an item of some
\* priority leaves behind no InsertAtTop item of that priority that was
\* inserted later, and returns no Enqueue item while an InsertAtTop item of
\* that priority is held.
C4_StoreInsertAtTopOrder ==
    (RedisCalled("Dequeue") /\ last.redis.err = NoErr /\ last.before.RedisPQ.clean) =>
        \A at \in AddedAt(last.before.RedisPQ, last.redis.val) :
            LET calls == last.before.RedisPQ.calls[at[1]] IN
            \A i \in 1 .. Len(calls) :
                calls[i].kind = "InsertAtTop" =>
                    ~(calls[at[2]].kind = "Enqueue" \/ i > at[2])

\* The methods whose results the two engines are compared on.
Compared == {"Enqueue", "InsertAtTop", "Dequeue", "ListContents", "GetPosition"}

\* C5: called side by side with the same calls, the two engines return the
\* same result from every Enqueue, InsertAtTop, Dequeue, ListContents and
\* GetPosition: the same error or none, the same value, listing and position.
C5_EnginesAgree ==
    (impl = "Both" /\ last.op \in Compared) => last.slice = last.redis

\* C6: on both engines an Enqueue or InsertAtTop with a priority outside 0..9
\* returns the priority error and leaves every queue of the engine as it was.
C6_BadPriorityRejected ==
    [][(last'.op \in {"Enqueue", "InsertAtTop"} /\ last'.priority \notin Levels) =>
          /\ mpq' = mpq
          /\ rdb' = rdb
          /\ OnSlice => last'.slice.err = ErrPriority
          /\ OnRedis => last'.redis.err = ErrPriority]_vars

\* C6 witness: Enqueue with priority 10 was refused on a queue that holds an
\* item at level 9.
C6_Witness ==
    /\ SliceCalled("Enqueue") /\ last.priority = 10
    /\ last.slice.err = ErrPriority
    /\ last.queueName \in DOMAIN mpq
    /\ Len(mpq[last.queueName][9]) > 0

\* C7: on the slice-backed engine AddQueue of a registered name returns the
\* already-exists error and leaves the registry and every item as they were;
\* AddQueue of any other name succeeds and registers it with ten empty
\* levels, the other queues untouched.
C7_AddQueue ==
    [][(last'.op = "AddQueue" /\ OnSlice) =>
          LET name == last'.queueName IN
          IF name \in DOMAIN mpq
          THEN last'.slice.err = ErrExists /\ mpq' = mpq
          ELSE /\ last'.slice.err = NoErr
               /\ DOMAIN mpq' = DOMAIN mpq \cup {name}
               /\ \A p \in Levels : mpq'[name][p] = <<>>
               /\ \A n \in DOMAIN mpq : mpq'[n] = mpq[n]]_vars

\* C7 witness: AddQueue was refused for a queue that holds items.
C7_Witness ==
    /\ SliceCalled("AddQueue") /\ last.slice.err = ErrExists
    /\ SliceHeldStrings(mpq, last.queueName) # {}

\* The methods that look a queue up by name.
ByName == {"Enqueue", "Dequeue", "IsEmpty", "ListContents", "GetPosition", "InsertAtTop"}

\* C8 as claimed: on the slice-backed engine every method called with a name
\* that was never added fails with the does-not-exist error and changes
\* nothing.
C8_UnknownQueueNotFound ==
    [][(last'.op \in ByName /\ OnSlice /\ last'.queueName \notin DOMAIN mpq) =>
          last'.slice.err = ErrNoQueue /\ mpq' = mpq]_vars

\* C8 amended: on the slice-backed engine every method called with a name
\* that was never added fails and changes nothing, the name staying
\* unregistered; the error is the does-not-exist error, except that Enqueue
\* and InsertAtTop with a priority outside 0..9 return the priority error,
\* the priority being tested before the name is looked up.
C8_UnknownQueueFails ==
    [][(last'.op \in ByName /\ OnSlice /\ last'.queueName \notin DOMAIN mpq) =>
          /\ mpq' = mpq
          /\ last'.slice.err =
                IF last'.op \in {"Enqueue", "InsertAtTop"} /\ last'.priority \notin Levels
                THEN ErrPriority ELSE ErrNoQueue]_vars

\* C8 witness: IsEmpty of a name never added failed with the does-not-exist
\* error while the other queue held items.
C8_Witness ==
    /\ SliceCalled("IsEmpty") /\ last.slice.err = ErrNoQueue
    /\ last.queueName \notin DOMAIN mpq
    /\ \E n \in DOMAIN mpq : SliceHeldStrings(mpq, n) # {}

\* C9: on both engines Dequeue of a queue that holds nothing returns the
\* queue-is-empty error and leaves it empty, and Dequeue of a queue that holds
\* an item does not return that error.
C9_DequeueEmpty ==
    [][last'.op = "Dequeue" =>
          LET q == last'.queueName IN
          /\ (OnSlice /\ q \in DOMAIN mpq) =>
                IF \A p \in Levels : mpq[q][p] = <<>>
                THEN last'.slice.err = ErrEmpty /\ mpq' = mpq
                ELSE last'.slice.err # ErrEmpty
          /\ OnRedis =>
                IF rdb[q] = {}
                THEN last'.redis.err = ErrEmpty /\ rdb' = rdb
                ELSE last'.redis.err # ErrEmpty]_vars

\* C9 witness: Dequeue of an empty queue of the store returned the
\* queue-is-empty error while the other queue held members.
C9_Witness ==
    /\ RedisCalled("Dequeue") /\ last.redis.err = ErrEmpty
    /\ rdb[last.queueName] = {}
    /\ \E q \in QueueNames : rdb[q] # {}

\* C10: on both engines the map ListContents returns has a key p only where
\* the queue holds an item of priority p, no key with an empty sequence, and
\* no key at all for a queue that holds nothing.
C10_ListContentsKeys ==
    /\ (SliceCalled("ListContents") /\ last.slice.err = NoErr) =>
          LET c == last.slice.contents
              q == last.queueName
          IN /\ \A p \in DOMAIN c :
                   Len(c[p]) > 0 /\ p \in Levels /\ Len(mpq[q][p]) > 0
             /\ (\A p \in Levels : mpq[q][p] = <<>>) => DOMAIN c = {}
    /\ (RedisCalled("ListContents") /\ last.redis.err = NoErr) =>
          LET c == last.redis.contents
              q == last.queueName
          IN /\ \A p \in DOMAIN c :
                   /\ Len(c[p]) > 0
                   /\ \E x \in rdb[q] :
                         x.Score \in {p * MicroPerUnit, p * MicroPerUnit - 1}
             /\ rdb[q] = {} => DOMAIN c = {}

\* C10 witness: ListContents of a queue whose only items are at level 9
\* returned a map with the one key 9.
C10_Witness ==
    /\ SliceCalled("ListContents") /\ last.slice.err = NoErr
    /\ DOMAIN last.slice.contents = {9}

\* for ... { item, _ := pq.Dequeue(queueName) }: what the k-th of k Dequeue
\* calls in a row returns, on each engine.
RECURSIVE SliceNthDequeue(_, _, _)
SliceNthDequeue(m, queueName, k) ==
    LET d == MultiPriorityQueue_Dequeue(m, queueName)
    IN IF k <= 1 THEN d.ret ELSE SliceNthDequeue(d.mpq, queueName, k - 1)

RECURSIVE RedisNthDequeue(_, _, _)
RedisNthDequeue(db, queueName, k) ==
    LET d == RedisPriorityQueue_Dequeue(db, queueName, Reliable)
    IN IF k <= 1 THEN d.ret ELSE RedisNthDequeue(d.rdb, queueName, k - 1)

\* The string forms of the values a slice-backed queue holds are pairwise
\* distinct.
SliceDistinct(m, queueName) ==
    Cardinality(SliceHeldStrings(m, queueName)) = SumLen(m[queueName], 0)

\* The members of a sorted set filed under priority p, and under a lower one.
MembersAt(set, p) == {x \in set : x.Score \in {p * MicroPerUnit, p * MicroPerUnit - 1}}
MembersBelow(set, p) == {x \in set : x.Score < p * MicroPerUnit - 1}

\* C11: on both engines, while the values held are pairwise distinct (by
\* string form), a GetPosition(v) that returns (p, i) agrees with the Dequeue
\* order: the N items held at priority p have the positions 0..N-1, each
\* reported at priority p, and of the Dequeue calls that follow with nothing
\* added, the one numbered (items at priorities below p) + i + 1 returns the
\* value with the string form of v.
C11_PositionMatchesDequeueOrder ==
    /\ (SliceCalled("GetPosition") /\ last.slice.err = NoErr
            /\ SliceDistinct(mpq, last.queueName)) =>
          LET q == last.queueName
              p == last.slice.priority
              i == last.slice.pos
              N == Len(mpq[q][p])
              below == SumLen(mpq[q], 0) - SumLen(mpq[q], p)
              At(j) == MultiPriorityQueue_GetPosition(mpq, q, mpq[q][p][j].Value).ret
          IN /\ p \in Levels
             /\ \A j \in 1 .. N : At(j).err = NoErr /\ At(j).priority = p
             /\ {At(j).pos : j \in 1 .. N} = 0 .. N - 1
             /\ i \in 0 .. N - 1
             /\ SliceNthDequeue(mpq, q, below + i + 1).err = NoErr
             /\ Sprintf(SliceNthDequeue(mpq, q, below + i + 1).val) = Sprintf(last.value)
    /\ (RedisCalled("GetPosition") /\ last.redis.err = NoErr) =>
          LET q == last.queueName
              p == last.redis.priority
              i == last.redis.pos
              at == MembersAt(rdb[q], p)
              N == Cardinality(at)
              below == Cardinality(MembersBelow(rdb[q], p))
              At(x) == RedisPriorityQueue_GetPosition(rdb, q, StringValue(x.Member),
                                                      Reliable).ret
          IN /\ p \in Levels
             /\ \A x \in at : At(x).err = NoErr /\ At(x).priority = p
             /\ {At(x).pos : x \in at} = 0 .. N - 1
             /\ i \in 0 .. N - 1
             /\ RedisNthDequeue(rdb, q, below + i + 1).err = NoErr
             /\ Sprintf(RedisNthDequeue(rdb, q, below + i + 1).val) = Sprintf(last.value)

\* C11 witness: GetPosition on the store returned priority 9 and index 0 for
\* a value that waits behind an item of a lower priority, so that the second
\* Dequeue returns it.
C11_Witness ==
    /\ RedisCalled("GetPosition") /\ last.redis.err = NoErr
    /\ last.redis.priority = 9 /\ last.redis.pos = 0
    /\ MembersBelow(rdb[last.queueName], 9) # {}

\* for { item, err := pq.Dequeue(queueName); if err != nil { break } ... }:
\* the values Dequeue returns from the slice-backed engine, called until it
\* fails.
RECURSIVE SliceDrain(_, _)
SliceDrain(m, queueName) ==
    LET d == MultiPriorityQueue_Dequeue(m, queueName)
    IN IF d.ret.err # NoErr THEN <<>>
       ELSE <<d.ret.val>> \o SliceDrain(d.mpq, queueName)

\* The values of a listing from priority p on, in ascending priority and,
\* within a priority, in index order.
RECURSIVE Flatten(_, _)
Flatten(contents, p) ==
    IF p >= NumLevels THEN <<>>
    ELSE Listed(contents, p) \o Flatten(contents, p + 1)

\* C12: on the slice-backed engine, right after a ListContents, Dequeue
\* repeated until it fails returns exactly the values listed, in ascending
\* priority and within a priority in the listed order, and the failure that
\* ends it is the queue-is-empty error.
C12_ListThenDrain ==
    (SliceCalled("ListContents") /\ last.slice.err = NoErr) =>
        LET q == last.queueName
            drained == SliceDrain(mpq, q)
        IN /\ drained = Flatten(last.slice.contents, 0)
           /\ SliceNthDequeue(mpq, q, Len(drained) + 1).err = ErrEmpty

\* C12 witness: the listing held two values under one priority, one of them
\* put there by InsertAtTop after the other was enqueued.
C12_Witness ==
    /\ SliceCalled("ListContents") /\ last.slice.err = NoErr
    /\ last.before.SlicePQ.clean
    /\ \E p \in DOMAIN last.slice.contents :
          /\ Len(last.slice.contents[p]) = 2
          /\ Len(last.before.SlicePQ.calls[p]) = 2
          /\ last.before.SlicePQ.calls[p][1].kind = "Enqueue"
          /\ last.before.SlicePQ.calls[p][2].kind = "InsertAtTop"

\* C13: on both engines, right after a successful InsertAtTop(q, v, p) of a
\* value that q did not hold, GetPosition(q, v) returns priority p and index
\* 0, whatever else q holds at priority p.
C13_InsertAtTopIsFirst ==
    [][(last'.op = "InsertAtTop") =>
          LET q == last'.queueName
              v == last'.value
              p == last'.priority
              slice == MultiPriorityQueue_GetPosition(mpq', q, v).ret
              redis == RedisPriorityQueue_GetPosition(rdb', q, v, Reliable).ret
          IN /\ (OnSlice /\ last'.slice.err = NoErr
                    /\ Sprintf(v) \notin SliceHeldStrings(mpq, q)) =>
                   slice.err = NoErr /\ slice.priority = p /\ slice.pos = 0
             /\ (OnRedis /\ last'.redis.err = NoErr
                    /\ Sprintf(v) \notin RedisHeldStrings(rdb, q)) =>
                   redis.err = NoErr /\ redis.priority = p /\ redis.pos = 0]_vars

\* The priority a value was filed under: the one InsertAtTop or Enqueue was
\* called with, when the store holds the value with the score p - 0.000001
\* or the score p.
FiledUnder(set, member) ==
    {p \in Levels : \E x \in set :
        x.Member = member /\ x.Score \in {p * MicroPerUnit - 1, p * MicroPerUnit}}

\* C14: on the Redis-backed engine a member stored with the score
\* p - 0.000001 or the score p, p in 0..9, is listed by ListContents under the
\* key p and under no other key, and reported by GetPosition with priority p.
C14_FractionalScoreKeepsPriority ==
    /\ (RedisCalled("ListContents") /\ last.redis.err = NoErr) =>
          \A x \in rdb[last.queueName] :
              \A p \in FiledUnder(rdb[last.queueName], x.Member) :
                  \A k \in DOMAIN last.redis.contents :
                      (\E i \in 1 .. Len(last.redis.contents[k]) :
                          last.redis.contents[k][i] = StringValue(x.Member)) <=> k = p
    /\ (RedisCalled("GetPosition") /\ last.redis.err = NoErr) =>
          FiledUnder(rdb[last.queueName], Sprintf(last.value)) = {last.redis.priority}

\* The keys under which a listing shows the value.
KeysOf(contents, value) ==
    {k \in DOMAIN contents : \E i \in 1 .. Len(contents[k]) : contents[k][i] = value}

\* C15: on the Redis-backed engine a successful InsertAtTop(q, v, p) of a
\* value q already holds moves it: afterwards q holds exactly one member with
\* the string form of v, ListContents shows it under p and nowhere else, q
\* holds as many members as before and every other member is as it was.
C15_InsertAtTopRelocates ==
    [][(last'.op = "InsertAtTop" /\ OnRedis /\ last'.redis.err = NoErr
            /\ Sprintf(last'.value) \in RedisHeldStrings(rdb, last'.queueName)) =>
          LET q == last'.queueName
              valueStr == Sprintf(last'.value)
              listing == RedisPriorityQueue_ListContents(rdb', q, Reliable).ret.contents
          IN /\ Cardinality({x \in rdb'[q] : x.Member = valueStr}) = 1
             /\ KeysOf(listing, StringValue(valueStr)) = {last'.priority}
             /\ Cardinality(rdb'[q]) = Cardinality(rdb[q])
             /\ {x \in rdb'[q] : x.Member # valueStr} =
                   {x \in rdb[q] : x.Member # valueStr}]_vars

\* C15 witness: InsertAtTop moved a value from the priority it was enqueued
\* with to another one, a second member staying where it was.
C15_Witness ==
    /\ RedisCalled("InsertAtTop") /\ last.redis.err = NoErr
    /\ last.before.RedisPQ.clean
    /\ \E at \in AddedAt(last.before.RedisPQ, last.value) :
          at[1] # last.priority /\ last.before.RedisPQ.calls[at[1]][at[2]].kind = "Enqueue"
    /\ Cardinality(rdb[last.queueName]) = 2

\* The goroutines between pq.mutex.Lock() and pq.mutex.Unlock() of queue q.
Inside(q) ==
    {t \in Threads : th[t].pc \in {"read", "write", "unlockQueue"} /\ th[t].queueName = q}

\* C17: on the slice-backed engine the work of the methods on the levels of
\* one queue is mutually exclusive: at most one goroutine is between the Lock
\* and the Unlock of the queue's mutex, it holds that mutex, what it read of
\* the levels is what they hold when it writes, and its write leaves the
\* queue and returns the result as the whole method run alone would; so two
\* concurrent Enqueue calls both leave their item and every concurrent read
\* sees the levels before or after a whole mutation.
C17_QueueOperationsExclusive ==
    [][/\ \A q \in QueueNames :
             /\ Cardinality(Inside(q)') <= 1
             /\ \A t \in Inside(q)' : mu'[q] = t
       /\ \A t \in Threads :
             (th[t].pc = "write" /\ th'[t].pc = "unlockQueue") =>
                LET alone == Method(th[t].op, mpq, th[t].queueName, th[t].value,
                                    th[t].priority)
                IN /\ th[t].tmp = mpq[th[t].queueName]
                   /\ mpq' = alone.mpq
                   /\ th'[t].ret = alone.ret]_vars

\* C17 witness: a goroutine has written its Enqueue into a queue that holds
\* the item of the other one, which waits for the queue's mutex to dequeue.
C17_Witness ==
    \E t1, t2 \in Threads :
        /\ th[t1].op = "Enqueue" /\ th[t1].pc = "unlockQueue"
        /\ th[t2].op = "Dequeue" /\ th[t2].pc = "lockQueue"
        /\ th[t1].queueName = th[t2].queueName
        /\ Len(mpq[th[t1].queueName][0]) = 2

\* The mutex a goroutine is about to lock, "none" when it is not at a Lock.
Wants(t) ==
    IF th[t].pc = "lockRegistry" THEN RegistryMutex
    ELSE IF th[t].pc = "lockQueue" THEN th[t].queueName
    ELSE "none"

\* C18: on the slice-backed engine a goroutine in a method on one queue never
\* waits for a mutex held by a goroutine in a method on another queue.
C18_NoCrossQueueContention ==
    \A t1, t2 \in Threads :
        (/\ t1 # t2
         /\ th[t1].op \in ByName /\ th[t2].op \in ByName
         /\ Wants(t1) # "none" /\ mu[Wants(t1)] = t2) =>
            th[t1].queueName = th[t2].queueName

\* The goroutine is between the ZRem and the ZAdd of an InsertAtTop of a
\* value that the queue held.
InWindow(w) == th[w].op = "InsertAtTop" /\ th[w].pc = "zadd" /\ th[w].exists

\* The methods that read a queue of the store.
Readers == {"GetPosition", "ListContents", "IsEmpty"}

\* What a reader returns from a queue that does not hold the member.
Absent(op, ret, queue, member) ==
    CASE op = "GetPosition" -> ret.err = ErrNotFound
      [] op = "ListContents" -> KeysOf(ret.contents, StringValue(member)) = {}
      [] op = "IsEmpty" -> ret.empty = (queue = {})

\* C16: on the Redis-backed engine the ZRem and the ZAdd of InsertAtTop are
\* two store commands with a window between them: while a goroutine is
\* between them for a value v the queue held, the queue does not hold v, and a
\* GetPosition of v, a ListContents or an IsEmpty whose store command runs in
\* that window returns the queue without v. The reader that gets there is one
\* on another RedisPriorityQueue of the same store; rpq.mutex keeps out the
\* readers of the RedisPriorityQueue the InsertAtTop was called on.
C16_InsertAtTopWindow ==
    [][\A w \in Threads : InWindow(w) =>
          LET q == th[w].queueName
              member == Sprintf(th[w].value)
          IN /\ member \notin RedisHeldStrings(rdb, q)
             /\ \A r \in Threads \ {w} :
                   (/\ th[r].pc = "command" /\ th'[r].pc = "unlockStore"
                    /\ th[r].op \in Readers /\ th[r].queueName = q
                    /\ th[r].op = "GetPosition" => Sprintf(th[r].value) = member) =>
                      /\ th[r].rpq # th[w].rpq
                      /\ Absent(th[r].op, th'[r].ret, rdb[q], member)]_vars

\* C16 witness: GetPosition of v returned the not-found error while the
\* InsertAtTop of v, which the queue held, had removed it and not yet added it.
C16_Witness ==
    \E w, r \in Threads :
        /\ InWindow(w)
        /\ th[r].op = "GetPosition" /\ th[r].pc = "unlockStore"
        /\ th[r].queueName = th[w].queueName /\ th[r].value = th[w].value
        /\ th[r].ret.err = ErrNotFound

\* The store commands the call made last issued: none for AddQueue and for a
\* priority out of range, two for InsertAtTop, one for every other method.
Issued ==
    IF last.op \in {"New", "AddQueue"} \/ last.redis.err = ErrPriority THEN {}
    ELSE IF last.op = "InsertAtTop" THEN {1, 2}
    ELSE {1}

\* C19: on the Redis-backed engine a call of which a store command failed
\* returns an error.
C19_StoreFailureReturned ==
    (RedisCalled(last.op) /\ \E i \in Issued : last.net[i]) => last.redis.err # NoErr

\* C20: on the Redis-backed engine, the store answering, DeleteItem(q, v) of a
\* value q holds succeeds and removes exactly the member with the string form
\* of v, every other member keeping its score and its place in the order;
\* DeleteItem of a value q does not hold, an empty q included, returns the
\* not-found error and leaves q as it was. No other queue changes.
C20_DeleteItem ==
    [][(last'.op = "DeleteItem" /\ ~last'.net[1]) =>
          LET q == last'.queueName
              member == Sprintf(last'.value)
              Other(x) == x.Member # member
          IN /\ IF member \in RedisHeldStrings(rdb, q)
                THEN /\ last'.redis.err = NoErr
                     /\ member \notin RedisHeldStrings(rdb', q)
                     /\ Cardinality(rdb'[q]) = Cardinality(rdb[q]) - 1
                     /\ ZRangeWithScores(rdb', q) =
                           SelectSeq(ZRangeWithScores(rdb, q), Other)
                ELSE last'.redis.err = ErrNotFound /\ rdb'[q] = rdb[q]
             /\ \A k \in QueueNames \ {q} : rdb'[k] = rdb[k]]_vars

\* C20 witness: DeleteItem removed the first of two members of a queue, the
\* second one staying.
C20_Witness ==
    /\ RedisCalled("DeleteItem") /\ last.redis.err = NoErr
    /\ last.before.RedisPQ.clean
    /\ Cardinality(LogStrings(last.before.RedisPQ)) = 2
    /\ Cardinality(rdb[last.queueName]) = 1
    /\ \A x \in rdb[last.queueName] : Byte(Sprintf(last.value)) < Byte(x.Member)

\* The levels of a queue of the slice-backed engine that hold an item with
\* the string form of value, and the places of those items in a level.
MatchLevels(queues, value) ==
    {p \in Levels : \E i \in 1 .. Len(queues[p]) :
                       Sprintf(queues[p][i].Value) = Sprintf(value)}
MatchPlaces(level, value) ==
    {i \in 1 .. Len(level) : Sprintf(level[i].Value) = Sprintf(value)}

\* What ListContents returns for a queue of the slice-backed engine.
SliceListed(m, queueName) ==
    MultiPriorityQueue_ListContents(m, queueName).ret.contents

\* C21: on the slice-backed engine DeleteItem(q, v) removes exactly one item,
\* the first one with v's value in a scan of the levels 0..9 front to back,
\* also when the value is held at other priorities too, so that ListContents
\* before and after differ by that entry only; it returns the not-found error
\* when no item matches and the no-queue error when q is not registered, and
\* then nothing changes.
C21_SliceDeleteItem ==
    [][(last'.op = "DeleteItem" /\ OnSlice) =>
          LET q == last'.queueName
              v == last'.value
          IN IF q \notin DOMAIN mpq
             THEN last'.slice.err = ErrNoQueue /\ mpq' = mpq
             ELSE IF MatchLevels(mpq[q], v) = {}
             THEN last'.slice.err = ErrNotFound /\ mpq' = mpq
             ELSE LET p == CHOOSE p \in MatchLevels(mpq[q], v) :
                              \A p2 \in MatchLevels(mpq[q], v) : p <= p2
                      i == CHOOSE i \in MatchPlaces(mpq[q][p], v) :
                              \A i2 \in MatchPlaces(mpq[q][p], v) : i <= i2
                      was == SliceListed(mpq, q)
                      is == SliceListed(mpq', q)
                  IN /\ last'.slice.err = NoErr
                     /\ SumLen(mpq'[q], 0) = SumLen(mpq[q], 0) - 1
                     /\ DOMAIN is = IF Len(was[p]) = 1 THEN DOMAIN was \ {p}
                                    ELSE DOMAIN was
                     /\ \A k \in DOMAIN is :
                           is[k] = IF k = p THEN RemoveAt(was[p], i) ELSE was[k]
                     /\ \A k \in DOMAIN mpq' \ {q} : mpq'[k] = mpq[k]
                     /\ DOMAIN mpq' = DOMAIN mpq]_vars

\* C21 witness: DeleteItem took a value out of level 0 of a queue that still
\* holds the same value at level 9.
C21_Witness ==
    /\ SliceCalled("DeleteItem") /\ last.slice.err = NoErr
    /\ Len(mpq[last.queueName][0]) = 0
    /\ MatchLevels(mpq[last.queueName], last.value) = {9}

\* What IsEmpty, ListContents and Dequeue would return for queue q in the
\* current state, on the engine under test, the store answering.
IsEmptyNow(q) ==
    IF OnSlice THEN MultiPriorityQueue_IsEmpty(mpq, q).ret
    ELSE RedisPriorityQueue_IsEmpty(rdb, q, Reliable).ret
ListContentsNow(q) ==
    IF OnSlice THEN MultiPriorityQueue_ListContents(mpq, q).ret
    ELSE RedisPriorityQueue_ListContents(rdb, q, Reliable).ret
DequeueNow(q) ==
    IF OnSlice THEN MultiPriorityQueue_Dequeue(mpq, q).ret
    ELSE RedisPriorityQueue_Dequeue(rdb, q, Reliable).ret

\* The queues the engine under test knows: the registered names of the
\* slice-backed engine, every name of the Redis-backed one.
Known == IF OnSlice THEN DOMAIN mpq ELSE QueueNames

\* The number of items queue q holds on the engine under test.
Held(q) == IF OnSlice THEN SumLen(mpq[q], 0) ELSE Cardinality(rdb[q])

OnEmptyQueue(op, queueName, value) ==
    Method(op, MultiPriorityQueue_AddQueue(NewMultiPriorityQueue, queueName).mpq,
           queueName, value, 0).ret

\* The methods that add nothing.
Queries == {"Dequeue", "IsEmpty", "ListContents", "GetPosition"}

\* C23: the Redis-backed engine has no notion of a queue existing: AddQueue
\* always succeeds and leaves the store as it is, also when repeated; no call
\* ever returns the no-queue error; Enqueue and InsertAtTop with a name that
\* AddQueue was never called with succeed and store the item, where the
\* slice-backed engine fails with the no-queue error; and every other call
\* with such a name answers as a call on an empty queue does.
C23_NoExistenceInStore ==
    [][LET op == last'.op
           q == last'.queueName
           r == last'.redis
           never == q \notin DOMAIN mpq
       IN /\ r.err # ErrNoQueue
          /\ op = "AddQueue" => (r.err = NoErr /\ rdb' = rdb)
          /\ (op \in Adds /\ never /\ ~BadPriority(last'.priority)) =>
                /\ r.err = NoErr
                /\ Sprintf(last'.value) \in RedisHeldStrings(rdb', q)
                /\ last'.slice.err = ErrNoQueue /\ mpq' = mpq
          /\ (op \in Queries /\ never /\ rdb[q] = {}) =>
                /\ r = OnEmptyQueue(op, q, last'.value)
                /\ rdb' = rdb
                /\ last'.slice.err = ErrNoQueue]_vars

\* C23 witness: Enqueue with a name never added succeeded on the store, which
\* holds the item, and failed on the slice-backed engine, after an AddQueue of
\* the other name had left a held member in place.
C23_Witness ==
    /\ last.op = "Enqueue" /\ last.redis.err = NoErr
    /\ last.slice.err = ErrNoQueue
    /\ last.queueName \notin DOMAIN mpq /\ DOMAIN mpq # {}
    /\ Cardinality(rdb[last.queueName]) = 2

\* The values of a sequence.
Range(seq) == {seq[i] : i \in 1 .. Len(seq)}

\* C24: on the Redis-backed engine a Dequeue that succeeds returns a member
\* of the lowest-numbered priority level that ListContents reports for the
\* queue, and removes it; no member filed under a lower priority, by Enqueue
\* or by InsertAtTop, is held when a member filed under priority p (by
\* InsertAtTop in particular) is returned.
C24_StoreDequeueLowestLevel ==
    [][(last'.op = "Dequeue" /\ last'.redis # NotCalled
           /\ last'.redis.err = NoErr) =>
          LET q == last'.queueName
              member == Sprintf(last'.redis.val)
              contents == RedisPriorityQueue_ListContents(rdb, q, Reliable).ret.contents
              lowest == CHOOSE p \in DOMAIN contents :
                           \A p2 \in DOMAIN contents : p <= p2
          IN /\ DOMAIN contents # {}
             /\ last'.redis.val \in Range(contents[lowest])
             /\ FiledUnder(rdb[q], member) = {lowest}
             /\ MembersBelow(rdb[q], lowest) = {}
             /\ member \notin RedisHeldStrings(rdb', q)
             /\ Cardinality(rdb'[q]) = Cardinality(rdb[q]) - 1]_vars

\* C24 witness: Dequeue returned the member enqueued at priority 0 of a queue
\* that holds a member put at priority 9 by InsertAtTop before that Enqueue.
C24_Witness ==
    /\ RedisCalled("Dequeue") /\ last.redis.err = NoErr
    /\ last.before.RedisPQ.clean
    /\ Len(last.before.RedisPQ.calls[0]) = 1
    /\ last.before.RedisPQ.calls[0][1].kind = "Enqueue"
    /\ Sprintf(last.before.RedisPQ.calls[0][1].value) = Sprintf(last.redis.val)
    /\ Len(last.before.RedisPQ.calls[9]) = 1
    /\ last.before.RedisPQ.calls[9][1].kind = "InsertAtTop"
    /\ \E x \in rdb[last.queueName] : x.Score = 9 * MicroPerUnit - 1

\* C25: on either engine GetPosition of a value the queue does not hold (no
\* item has its string form) returns an error with priority -1 and index -1
\* and leaves the contents as they were; on the slice-backed engine so does
\* GetPosition with a name that is not registered.
C25_GetPositionAbsent ==
    [][last'.op = "GetPosition" =>
          LET q == last'.queueName
              v == last'.value
              s == last'.slice
              r == last'.redis
          IN /\ (OnSlice /\ q \notin DOMAIN mpq) =>
                   /\ s.err = ErrNoQueue /\ s.priority = -1 /\ s.pos = -1
             /\ (OnSlice /\ q \in DOMAIN mpq /\ MatchLevels(mpq[q], v) = {}) =>
                   /\ s.err = ErrNotFound /\ s.priority = -1 /\ s.pos = -1
             /\ (OnRedis /\ Sprintf(v) \notin RedisHeldStrings(rdb, q)) =>
                   /\ r.err = ErrNotFound /\ r.priority = -1 /\ r.pos = -1
             /\ mpq' = mpq /\ rdb' = rdb]_vars

\* C25 witness: GetPosition of a value that a queue holding two other items
\* does not hold failed, and GetPosition had failed for a name not registered.
C25_Witness ==
    /\ SliceCalled("GetPosition") /\ last.slice.err = ErrNotFound
    /\ last.slice.priority = -1 /\ last.slice.pos = -1
    /\ SumLen(mpq[last.queueName], 0) = 2
    /\ DOMAIN mpq # QueueNames

\* The goroutines between the Lock and the Unlock of the registry mutex, and
\* the ones that wait for or hold the mutex of a queue.
AtRegistry ==
    {t \in Threads : th[t].pc \in {"lookup", "insert", "unlockRegistry"}}
AtQueue ==
    {t \in Threads : th[t].pc \in {"lockQueue", "read", "write", "unlockQueue"}}

\* C26: on the slice-backed engine the registry mutex is held only for the
\* lookup of the name, or the test and insert of AddQueue, and is released
\* before the mutex of a queue is locked: no goroutine holds the registry
\* mutex together with the mutex of a queue, and no goroutine that waits for
\* or holds the mutex of a queue holds the registry mutex, so AddQueue never
\* waits for such a goroutine.
C26_RegistryLockScope ==
    /\ \A t \in Threads :
          /\ mu[RegistryMutex] = t <=> t \in AtRegistry
          /\ t \in AtRegistry => \A q \in QueueNames : mu[q] # t
          /\ (\E q \in QueueNames : mu[q] = t) => t \in AtQueue
          /\ t \in AtQueue => mu[RegistryMutex] # t
    /\ \A t \in Threads :
          (th[t].pc = "lockRegistry" /\ th[t].op = "AddQueue"
              /\ mu[RegistryMutex] # "free")
             => mu[RegistryMutex] \in AtRegistry \ AtQueue

\* C26 witness: AddQueue holds the registry mutex, about to insert the name,
\* while the other goroutine holds the mutex of a queue in the middle of its
\* work.
C26_Witness ==
    \E t, u \in Threads :
        /\ th[t].op = "AddQueue" /\ th[t].pc = "insert"
        /\ mu[RegistryMutex] = t
        /\ th[u].pc = "write" /\ mu[th[u].queueName] = u

\* C27: on the slice-backed engine, with goroutines calling the methods
\* concurrently under the scheduling of the Go runtime, every call returns in
\* the end, holding no mutex once it has returned; while a call is under way
\* some goroutine can take a step (no deadlock), and no call waits for an
\* item: Dequeue on an empty queue returns too.
C27_EveryCallReturns ==
    /\ [](\A t \in Threads :
             th[t].pc = "idle" => \A l \in Mutexes : mu[l] # t)
    /\ [](\A l \in Mutexes : mu[l] # "free" => th[mu[l]].pc # "idle")
    /\ \A t \in Threads : (th[t].pc # "idle") ~> (th[t].pc = "idle")

\* C27 witness: a Dequeue that found the queue empty has returned, while the
\* other goroutine is waiting for the registry mutex.
C27_Witness ==
    \E t, u \in Threads :
        /\ th[t].pc = "idle" /\ th[t].op = "Dequeue" /\ th[t].ret.err = ErrEmpty
        /\ th[u].pc = "lockRegistry"
        /\ \A l \in Mutexes : mu[l] = "free"

\* The goroutines whose AddQueue call succeeded: at its return or after it.
Succeeded ==
    {t \in Threads : th[t].op = "AddQueue" /\ th[t].ret.err = NoErr}

\* C28: on the slice-backed engine, of the AddQueue calls that goroutines
\* make concurrently with one name that is not registered, exactly one
\* succeeds and the others fail with the already-exists error; a name once
\* registered stays registered with the queue made for it, which no AddQueue
\* replaces, and every later lookup of the name, by any goroutine, finds it
\* and works on that queue.
C28_OneAddQueueSucceeds ==
    /\ [](Cardinality(Succeeded) <= 1)
    /\ [](Succeeded # {} => SharedKeys \subseteq DOMAIN mpq)
    /\ [](\A t \in AtQueue : th[t].queueName \in DOMAIN mpq)
    /\ [][\A t \in Threads :
             /\ (th[t].pc = "insert" /\ th'[t].pc = "unlockRegistry") =>
                   IF th[t].queueName \in DOMAIN mpq
                   THEN th'[t].ret.err = ErrExists /\ mpq' = mpq
                   ELSE /\ th'[t].ret.err = NoErr
                        /\ DOMAIN mpq' = DOMAIN mpq \cup {th[t].queueName}
                        /\ mpq'[th[t].queueName] = NewPriorityQueue
             /\ (th[t].pc = "lookup" /\ th'[t].pc # "lookup"
                    /\ th[t].queueName \in DOMAIN mpq) => th'[t].exists
             /\ (th[t].pc \in {"lockRegistry", "lookup", "insert", "unlockRegistry"}
                    /\ th'[t].pc # th[t].pc) =>
                   \A n \in DOMAIN mpq : n \in DOMAIN mpq' /\ mpq'[n] = mpq[n]]_vars

\* C28 witness: both goroutines called AddQueue with the name while it was
\* not registered; one has returned nil, the other the already-exists error.
C28_Witness ==
    \E t, u \in Threads :
        /\ th[t].op = "AddQueue" /\ th[t].pc = "idle" /\ th[t].ret.err = NoErr
        /\ th[u].op = "AddQueue" /\ th[u].pc = "unlockRegistry"
        /\ th[u].ret.err = ErrExists
        /\ SumLen(mpq[th[u].queueName], 0) = 0

\* How many times a queue of the slice-backed engine holds an item.
Copies(queues, item) ==
    Cardinality({<<p, i>> \in Levels \X (1 .. MaxItems + 1) :
                    i <= Len(queues[p]) /\ queues[p][i] = item})

\* The items a queue of the slice-backed engine holds.
ItemsOf(queues) == UNION {Range(queues[p]) : p \in Levels}

\* C29: on the slice-backed engine, whatever the interleaving of concurrent
\* Enqueue, InsertAtTop and Dequeue calls, the items of a queue are the items
\* added less the items dequeued: a successful Enqueue or InsertAtTop adds
\* one copy of its item, at the level of its priority, and nothing else; a
\* successful Dequeue returns the value of an item the queue holds and takes
\* out that one copy, so no item is returned twice and none that was not
\* added; no other step changes what a queue holds; every item is in the
\* level of the priority it was added with.
C29_ItemConservation ==
    /\ [](\A q \in DOMAIN mpq : \A p \in Levels :
             \A item \in Range(mpq[q][p]) : item.Priority = p)
    /\ [][\A q \in DOMAIN mpq :
             LET writer == {t \in Threads : th[t].pc = "write"
                               /\ th'[t].pc = "unlockQueue" /\ th[t].queueName = q}
                 all == ItemsOf(mpq[q]) \cup ItemsOf(mpq'[q])
                 Delta(item) == Copies(mpq'[q], item) - Copies(mpq[q], item)
             IN /\ q \in DOMAIN mpq'
                /\ writer = {} => mpq'[q] = mpq[q]
                /\ \A t \in writer :
                      LET ret == th'[t].ret
                          added == Item(th[t].value, th[t].priority)
                      IN IF th[t].op \in Adds /\ ret.err = NoErr
                         THEN /\ \A item \in all :
                                    Delta(item) = IF item = added THEN 1 ELSE 0
                              /\ Len(mpq'[q][th[t].priority]) =
                                    Len(mpq[q][th[t].priority]) + 1
                         ELSE IF th[t].op = "Dequeue" /\ ret.err = NoErr
                         THEN \E gone \in ItemsOf(mpq[q]) :
                                 /\ gone.Value = ret.val
                                 /\ \A item \in all :
                                       Delta(item) = IF item = gone THEN -1 ELSE 0
                         ELSE mpq'[q] = mpq[q]]_vars

\* C29 witness: a Dequeue has taken out the item the other goroutine added,
\* while that goroutine waits for the queue's mutex to add another.
C29_Witness ==
    \E t, u \in Threads :
        /\ t # u
        /\ th[t].op = "Dequeue" /\ th[t].pc = "unlockQueue"
        /\ th[t].ret.err = NoErr /\ th[t].ret.val = ThreadValue(u)
        /\ th[u].op \in Adds /\ th[u].pc = "lockQueue"
        /\ th[u].queueName = th[t].queueName
        /\ SumLen(mpq[th[t].queueName], 0) = 1

\* C30: a queue of the Redis-backed engine never holds two members with the
\* same string; Enqueue(q, v, p) of a value q holds already adds no second
\* copy: the one member gets the score p, whatever priority it had and also
\* when InsertAtTop had put it there, every other member keeps its score, and
\* the count stays. On the slice-backed engine a successful Enqueue adds an item
\* whether or not the queue holds the value, so both copies are kept.
C30_StoreMembersUnique ==
    /\ [](\A q \in QueueNames : \A x, y \in rdb[q] : x.Member = y.Member => x = y)
    /\ [][(last'.op = "Enqueue" /\ ~BadPriority(last'.priority)) =>
             LET q == last'.queueName
                 member == Sprintf(last'.value)
                 z == Z(Float64(last'.priority), member)
             IN /\ (OnRedis /\ member \in RedisHeldStrings(rdb, q)) =>
                      /\ last'.redis.err = NoErr
                      /\ Cardinality(rdb'[q]) = Cardinality(rdb[q])
                      /\ rdb'[q] = {x \in rdb[q] : x.Member # member} \cup {z}
                /\ (OnRedis /\ member \notin RedisHeldStrings(rdb, q)) =>
                      /\ Cardinality(rdb'[q]) = Cardinality(rdb[q]) + 1
                      /\ rdb'[q] = rdb[q] \cup {z}
                /\ (OnSlice /\ q \in DOMAIN mpq) =>
                      /\ last'.slice.err = NoErr
                      /\ SumLen(mpq'[q], 0) = SumLen(mpq[q], 0) + 1
                      /\ Cardinality(MatchPlaces(mpq'[q][last'.priority], last'.value))
                            = Cardinality(MatchPlaces(mpq[q][last'.priority],
                                                      last'.value)) + 1]_vars

\* C30 witness: Enqueue at priority 9 of a value that InsertAtTop had put at
\* priority 0 of a queue of the Redis-backed engine, which holds another member
\* too: the member now has the score 9.
C30_Witness ==
    /\ RedisCalled("Enqueue") /\ last.redis.err = NoErr /\ last.priority = 9
    /\ last.before.RedisPQ.clean
    /\ \E i \in 1 .. Len(last.before.RedisPQ.calls[0]) :
          /\ last.before.RedisPQ.calls[0][i].kind = "InsertAtTop"
          /\ Sprintf(last.before.RedisPQ.calls[0][i].value) = Sprintf(last.value)
    /\ Z(Float64(9), Sprintf(last.value)) \in rdb[last.queueName]
    /\ Cardinality(rdb[last.queueName]) = 2

====
